---- MODULE Spec2Model ----
(***************************************************************************)
(* Model of zoom-ai-minuter: the KV-backed job record and its             *)
(* read-modify-write update (features/job), the job flows that drive it   *)
(* (processTranscript, classifyMeetingForJob, summarizeJobTranscript,     *)
(* outputMinutesToNotion, PATCH /:jobId), the chunk planner               *)
(* (splitTextIntoChunks) and the topic analysis (analyzeAllTopics).       *)
(*                                                                         *)
(* Spec      : the flows of up to two concurrent invocations, every await *)
(*             on the store being a scheduling point.                     *)
(* SeqSpec   : the same, one invocation at a time.                        *)
(* LiveSpec  : SeqSpec in which an invocation in flight keeps running.    *)
(* ChunkSpec : splitTextIntoChunks run statement by statement on bounded  *)
(*             texts and options.                                         *)
(* TopicSpec : generateMinutes from its global-summary call on, and       *)
(*             analyzeAllTopics, on bounded chunk lists, every call       *)
(*             settling in any order.                                     *)
(* VttSpec   : parseVttTranscript run line by line on bounded caption     *)
(*             files, under every combination of its options.             *)
(* MinutesSpec : parseGlobalSummary, generateTimelineFromTopics and the   *)
(*             assembly of the minutes (generateMinutes, steps 3 and 5 to *)
(*             7) on bounded summaries and topic arrays.                  *)
(* ErrorSpec : asyncErrorHandler around a function that resolves or       *)
(*             rejects, wrapped up to a bounded number of times.          *)
(* SampleSpec : prepareTextSample on bounded texts and options.           *)
(***************************************************************************)
EXTENDS Integers, Sequences, FiniteSets, TLC

VARIABLES
  store,        \* KV namespace, keys job:<jobId>
  transcripts,  \* KV namespace, keys transcript:<jobId>
  clock,        \* what new Date() returns next
  calls,        \* invocations started so far
  overlaps,     \* of these, started while another was in flight
  procs,        \* the invocations in flight: position and locals of each
  text,         \* splitTextIntoChunks: its argument
  optChunkSize, \* options.chunkSize (0: not given)
  optChunkOverlap, \* options.chunkOverlap (0: not given)
  startPos,     \* splitTextIntoChunks: let startPos
  endPos,       \* splitTextIntoChunks: let endPos of the last iteration
  chunkId,      \* splitTextIntoChunks: let chunkId
  chunks,       \* splitTextIntoChunks: const chunks
  splitPc,      \* splitTextIntoChunks: "idle" | "loop" | "done"
  entry,        \* the function entered: generateMinutes or analyzeAllTopics
  topicChunks,  \* analyzeAllTopics: its argument chunks
  topicCalls,   \* the analyzeTopicFromChunk call of each chunk
  resolved,     \* the chunks whose call has settled, in settling order
  batchIndex,   \* analyzeAllTopics: let i
  topics,       \* analyzeAllTopics: const topics
  analyzeError, \* the chunk whose rejection Promise.all took (0: none)
  summaryCall,  \* generateMinutes: its generateGlobalSummary call
  topicPc,      \* position in generateMinutes / analyzeAllTopics
  vttContent,   \* parseVttTranscript: its argument, as lines
  vttOptions,   \* parseVttTranscript: its options, defaults applied
  lineIndex,    \* parseVttTranscript: let i (1-based)
  currentEntry, \* parseVttTranscript: let currentEntry (<<>>: null)
  entries,      \* parseVttTranscript: const entries
  speakerSet,   \* parseVttTranscript: const speakerSet, in insertion order
  finalEntries, \* parseVttTranscript: const finalEntries
  transcript,   \* parseVttTranscript: what it returned (<<>>: nothing yet)
  vttPc,        \* position in parseVttTranscript
  minutesEntry, \* the function entered: generateMinutes,
                \* generateTimelineFromTopics or parseGlobalSummary
  summaryMarkdown, \* parseGlobalSummary: its argument, as lines
  globalSummary, \* what parseGlobalSummary returned (<<>>: nothing yet)
  minuteTopics, \* the topics array the caller passes to
                \* generateTimelineFromTopics
  timeline,     \* the topics of the timeline it returned (<<>>: nothing yet)
  resorted,     \* the topics of the timeline returned for timeline.topics
  minutes,      \* generateMinutes: const minutesData (<<>>: nothing yet)
  minutesPc,    \* position in the function entered
  innerOutcome, \* how the innermost function settled
  settled,      \* how the outermost wrapper passed so far settled
  wrapperCount, \* asyncErrorHandler wrappers around the function
  wrapped,      \* of these, the wrappers that have settled
  fullText,     \* prepareTextSample: its argument
  sampleOptions, \* prepareTextSample: options (0 / "none": not given)
  sampleIndex,  \* prepareTextSample, case 'all': let i
  sample,       \* prepareTextSample: let result / the value returned
  samplePc      \* position in prepareTextSample

jobVars == <<store, transcripts, clock, calls, overlaps, procs>>
chunkVars == <<text, optChunkSize, optChunkOverlap, startPos, endPos, chunkId, chunks, splitPc>>
topicVars == <<entry, topicChunks, topicCalls, resolved, batchIndex, topics,
               analyzeError, summaryCall, topicPc>>
vttVars == <<vttContent, vttOptions, lineIndex, currentEntry, entries,
             speakerSet, finalEntries, transcript, vttPc>>
minutesVars == <<minutesEntry, summaryMarkdown, globalSummary, minuteTopics,
                 timeline, resorted, minutes, minutesPc>>
errorVars == <<innerOutcome, settled, wrapperCount, wrapped>>
sampleVars == <<fullText, sampleOptions, sampleIndex, sample, samplePc>>
vars == <<store, transcripts, clock, calls, overlaps, procs, text, optChunkSize,
          optChunkOverlap, startPos, endPos, chunkId, chunks, splitPc,
          entry, topicChunks, topicCalls, resolved, batchIndex, topics,
          analyzeError, summaryCall, topicPc, vttContent, vttOptions,
          lineIndex, currentEntry, entries, speakerSet, finalEntries,
          transcript, vttPc, minutesEntry, summaryMarkdown, globalSummary,
          minuteTopics, timeline, resorted, minutes, minutesPc,
          innerOutcome, settled, wrapperCount, wrapped, fullText,
          sampleOptions, sampleIndex, sample, samplePc>>
\* what a step of a job flow, of the chunk planner, of the topic analysis
\* leaves alone
utilVars == <<errorVars, sampleVars>>
nonJobVars == <<chunkVars, topicVars, vttVars, minutesVars, utilVars>>
nonChunkVars == <<jobVars, topicVars, vttVars, minutesVars, utilVars>>
nonTopicVars == <<jobVars, chunkVars, vttVars, minutesVars, utilVars>>
nonVttVars == <<jobVars, chunkVars, topicVars, minutesVars, utilVars>>
nonMinutesVars == <<jobVars, chunkVars, topicVars, vttVars, utilVars>>
nonErrorVars ==
  <<jobVars, chunkVars, topicVars, vttVars, minutesVars, sampleVars>>
nonSampleVars ==
  <<jobVars, chunkVars, topicVars, vttVars, minutesVars, errorVars>>

---------------------------------------------------------------------------
(* Bounds of the model *)

\* invocations (flow calls, PATCH requests) started in one behaviour
MaxCalls == 3
\* of these, invocations started while another one is in flight
MaxOverlaps == 1
\* chunks handed to analyzeAllTopics
MaxTopicChunks == 5
\* length of the enumerated texts
MaxTextLen == 3
\* largest enumerated options.chunkSize / options.chunkOverlap
MaxChunkOpt == 3
\* chunks splitTextIntoChunks is followed for
MaxChunks == 5
\* lines of the enumerated caption files
MaxLines == 6
\* topics handed to generateTimelineFromTopics
MaxTopics == 3
\* lines of the enumerated global summaries
MaxSummaryLines == 4
\* asyncErrorHandler wrappers around one function
MaxWrappers == 3
\* length of the texts prepareTextSample is given
MaxSampleText == 9
\* largest enumerated options.maxTextLength
MaxSampleOpt == 4

---------------------------------------------------------------------------
(* Job domain *)

PENDING == "pending"
PROCESSING == "processing"
COMPLETED == "completed"
FAILED == "failed"
SKIPPED == "skipped"
JobStatus == {PENDING, PROCESSING, COMPLETED, FAILED, SKIPPED}
TerminalStatus == {COMPLETED, FAILED, SKIPPED}

INTERNAL_MEETING == "internalMeeting"
SMALL_TALK == "smallTalk"
PRIVATE == "private"
OTHER_CATEGORY == "other"
MeetingCategory == {INTERNAL_MEETING, SMALL_TALK, PRIVATE, OTHER_CATEGORY}

\* an optional field that is not there (undefined)
Absent == "absent"
\* an optional timestamp that is not there
NoTime == 0
\* the result of get() on a key that has no value (null)
NoJob == [nojob |-> TRUE]
NoTranscript == [notranscript |-> TRUE]

\* ids randomUUID hands out, and an id no job was ever created under
NewJobId == "j1"
UnknownJobId == "jx"
JobIds == {NewJobId, UnknownJobId}

Procs == {"p1", "p2"}

initializeJob(jobId, now) ==
  [jobId |-> jobId, createdAt |-> now, payload |-> "payload",
   downloadToken |-> "token", status |-> PENDING,
   processingStartedAt |-> NoTime, completedAt |-> NoTime,
   category |-> Absent, reason |-> Absent,
   notionPageId |-> Absent, notionPageUrl |-> Absent, error |-> Absent]

\* UpdateJobRequest: every field optional
EmptyRequest ==
  [status |-> Absent, category |-> Absent, reason |-> Absent,
   notionPageId |-> Absent, notionPageUrl |-> Absent, error |-> Absent,
   processingStartedAt |-> NoTime, completedAt |-> NoTime]

\* an updater that stamps on every entry, whatever the current status
StampRequest_Always(currentData, updateJobRequest, now) ==
  LET r1 == IF updateJobRequest.status = PROCESSING
            THEN [updateJobRequest EXCEPT !.processingStartedAt = now]
            ELSE updateJobRequest
  IN IF r1.status \in TerminalStatus
     THEN [r1 EXCEPT !.completedAt = now]
     ELSE r1

\* an updater without the timestamp side effects
StampRequest_Never(currentData, updateJobRequest, now) == updateJobRequest

\* updateJob's updater, first part: the two timestamp side effects, written
\* into the request
StampRequest(currentData, updateJobRequest, now) ==
  LET r1 == IF /\ updateJobRequest.status = PROCESSING
               /\ currentData.status # PROCESSING
            THEN [updateJobRequest EXCEPT !.processingStartedAt = now]
            ELSE updateJobRequest
  IN IF /\ r1.status \in TerminalStatus
        /\ currentData.status \notin TerminalStatus
     THEN [r1 EXCEPT !.completedAt = now]
     ELSE r1

\* a spread that takes the category from the request even when it is not named
SpreadRequest_Replace(currentData, r) ==
  [currentData EXCEPT
     !.status = IF r.status # Absent THEN r.status ELSE @,
     !.category = r.category,
     !.reason = IF r.reason # Absent THEN r.reason ELSE @,
     !.notionPageId = IF r.notionPageId # Absent THEN r.notionPageId ELSE @,
     !.notionPageUrl = IF r.notionPageUrl # Absent THEN r.notionPageUrl ELSE @,
     !.error = IF r.error # Absent THEN r.error ELSE @,
     !.processingStartedAt =
        IF r.processingStartedAt # NoTime THEN r.processingStartedAt ELSE @,
     !.completedAt = IF r.completedAt # NoTime THEN r.completedAt ELSE @]

\* { ...currentData, ...updateJobRequest }
SpreadRequest(currentData, r) ==
  [currentData EXCEPT
     !.status = IF r.status # Absent THEN r.status ELSE @,
     !.category = IF r.category # Absent THEN r.category ELSE @,
     !.reason = IF r.reason # Absent THEN r.reason ELSE @,
     !.notionPageId = IF r.notionPageId # Absent THEN r.notionPageId ELSE @,
     !.notionPageUrl = IF r.notionPageUrl # Absent THEN r.notionPageUrl ELSE @,
     !.error = IF r.error # Absent THEN r.error ELSE @,
     !.processingStartedAt =
        IF r.processingStartedAt # NoTime THEN r.processingStartedAt ELSE @,
     !.completedAt = IF r.completedAt # NoTime THEN r.completedAt ELSE @]

\* the updater updateJob hands to JobStorage.updateJob (currentData non-null)
JobUpdater(currentData, updateJobRequest, now) ==
  SpreadRequest(currentData, StampRequest(currentData, updateJobRequest, now))

\* updateJobStatus(status, error): the request it builds
updateJobStatus(status, error) ==
  IF error # "" /\ error # Absent /\ status = FAILED
  THEN [EmptyRequest EXCEPT !.status = status, !.error = error]
  ELSE [EmptyRequest EXCEPT !.status = status]

shouldProcessMeeting(category) == category = INTERNAL_MEETING

---------------------------------------------------------------------------
(* Chunk planner: splitTextIntoChunks *)

\* AI_MODEL_LIMITS.defaultChunkSize, defaultChunkOverlap
defaultChunkSize == 8000
defaultChunkOverlap == 500
\* how far before / after the nominal end the boundary search reaches
LookBack == 100
LookAhead == 200

Min(a, b) == IF a < b THEN a ELSE b
Max(a, b) == IF a > b THEN a ELSE b

\* String.prototype.indexOf(ch, fromIndex): 0-based position of the first ch
\* at or after fromIndex (a negative fromIndex counts as 0), -1 when none
IndexOf(t, ch, fromIndex) ==
  LET from == Max(fromIndex, 0)
      hits == {p \in from..(Len(t) - 1) : t[p + 1] = ch}
  IN IF hits = {} THEN -1 ELSE CHOOSE p \in hits : \A q \in hits : p <= q

\* String.prototype.substring(start, end): both clamped to 0..length, swapped
\* when start > end
Substring(t, start, end) ==
  LET s == Min(Max(start, 0), Len(t))
      e == Min(Max(end, 0), Len(t))
  IN SubSeq(t, Min(s, e) + 1, Max(s, e))

\* options?.chunkSize || default, options?.chunkOverlap || default
EffectiveChunkSize(opt) == IF opt = 0 THEN defaultChunkSize ELSE opt
EffectiveChunkOverlap(opt) == IF opt = 0 THEN defaultChunkOverlap ELSE opt

\* the loop body's endPos for the window that starts at sp
ChunkEnd(t, sp, chunkSize) ==
  LET nominal == sp + chunkSize
  IN IF nominal > Len(t)
     THEN Len(t)
     ELSE LET nextPeriodPos == IndexOf(t, ".", nominal - LookBack)
              nextNewlinePos == IndexOf(t, "\n", nominal - LookBack)
          IN IF nextPeriodPos > 0 /\ nextPeriodPos < nominal + LookAhead
             THEN nextPeriodPos + 1
             ELSE IF nextNewlinePos > 0 /\ nextNewlinePos < nominal + LookAhead
                  THEN nextNewlinePos + 1
                  ELSE nominal

\* startPos = endPos - chunkOverlap
NextStartPos(e, chunkOverlap) == e - chunkOverlap

\* Whether the while loop started at sp ever exits. The loop's only control
\* state is startPos, so it runs forever exactly when a start position recurs.
RECURSIVE SplitExitsFrom(_, _, _, _, _)
SplitExitsFrom(t, chunkSize, chunkOverlap, sp, seen) ==
  IF ~(sp < Len(t)) THEN TRUE
  ELSE IF sp \in seen THEN FALSE
  ELSE SplitExitsFrom(t, chunkSize, chunkOverlap,
                      NextStartPos(ChunkEnd(t, sp, chunkSize), chunkOverlap),
                      seen \cup {sp})

\* splitTextIntoChunks(text, options) returns
SplitReturns(t, options) ==
  SplitExitsFrom(t, EffectiveChunkSize(options.chunkSize),
                 EffectiveChunkOverlap(options.chunkOverlap), 0, {})

---------------------------------------------------------------------------
(* Invocations *)

\* texts a transcript or a summarize request can carry
JobTexts == {<<>>, <<"a", "a", "a">>}
\* request.transcriptEntries not given
NoEntries == <<"undefined">>
\* SummarizeRequest without its jobId: fullText ('' when not given) and the
\* text its transcriptEntries map and join to
SummarizeRequests ==
  {[fullText |-> <<"a", "a", "a">>, entries |-> NoEntries]}
    \cup {[fullText |-> <<>>, entries |-> e] : e \in {NoEntries} \cup JobTexts}
\* options a caller hands to summarizeJobTranscript (0: not given)
SummarizationOptions ==
  {[chunkSize |-> 0, chunkOverlap |-> 0], [chunkSize |-> 2, chunkOverlap |-> 1]}
\* bodies the PATCH route's schema lets through
PatchRequests ==
  {[EmptyRequest EXCEPT !.status = s] : s \in JobStatus}
    \cup {[EmptyRequest EXCEPT !.category = SMALL_TALK],
          [EmptyRequest EXCEPT !.status = FAILED, !.error = "patched"]}

\* no return value (yet)
NoResult == [category |-> Absent, reason |-> Absent, shouldProcess |-> FALSE]

IdleProc ==
  [op |-> "idle", pc |-> "idle", job |-> "", intry |-> FALSE,
   req |-> EmptyRequest, cur |-> NoJob, upd |-> NoJob, after |-> "",
   request |-> [fullText |-> <<>>, entries |-> NoEntries],
   options |-> [chunkSize |-> 0, chunkOverlap |-> 0], text |-> <<>>,
   answer |-> "", ret |-> NoResult]

\* where an invocation has ended: returned success, returned failure, refused
\* to start a flow, or rejected with an exception its caller sees
EndPcs == {"ret_ok", "ret_fail", "ret_refused", "raised"}

\* processTranscript's catch block: updateJobStatus(FAILED, errorMessage)
processTranscriptCatch(errorMessage) == updateJobStatus(FAILED, errorMessage)
\* summarizeJobTranscript's catch block
summarizeCatch(errorMessage) ==
  [EmptyRequest EXCEPT !.status = FAILED, !.error = errorMessage]
\* outputMinutesToNotion's catch block
notionCatch(errorMessage) ==
  [EmptyRequest EXCEPT !.status = FAILED, !.error = "Notion: " \o errorMessage]

CatchRequest(op, errorMessage) ==
  CASE op = "processTranscript" -> processTranscriptCatch(errorMessage)
    [] op = "summarize" -> summarizeCatch(errorMessage)
    [] op = "notion" -> notionCatch(errorMessage)

\* the invocation has ended at pc; its locals are gone, its return value is
\* with the caller (an exception carries none)
Ended(pr, pc) ==
  [IdleProc EXCEPT !.op = pr.op, !.job = pr.job, !.pc = pc,
                   !.ret = IF pc = "raised" THEN NoResult ELSE pr.ret]

\* the updater reads `now` when it stamps a timestamp
Stamps(currentData, updateJobRequest) ==
  StampRequest(currentData, updateJobRequest, 1) # updateJobRequest

\* An exception thrown at the current point of invocation pr. Inside the
\* flow's try block it enters the catch block, which runs up to its updateJob;
\* anywhere else it leaves the flow (asyncErrorHandler rethrows it).
Throw(pr, message) ==
  IF pr.intry
  THEN [pr EXCEPT !.intry = FALSE,
                  !.req = CatchRequest(pr.op, message),
                  !.pc = "upd_read", !.after = "ret_fail"]
  ELSE Ended(pr, "raised")

\* the invocation goes on to updateJob(env, jobId, request), then to `after`
CallUpdateJob(pr, request, after) ==
  [pr EXCEPT !.req = request, !.pc = "upd_read", !.after = after]

\* an invocation other than p is in flight
Overlaps(p) == \E q \in Procs \ {p} : procs[q].pc # "idle"

\* A caller may start an invocation on p.
MayStart(p) ==
  /\ procs[p].pc = "idle"
  /\ calls < MaxCalls
  /\ Overlaps(p) => overlaps < MaxOverlaps

\* the bookkeeping of a start on p
CountStart(p) ==
  /\ calls' = calls + 1
  /\ overlaps' = IF Overlaps(p) THEN overlaps + 1 ELSE overlaps

\* createJob: initializeJob + saveJob under a fresh id
CreateJob ==
  /\ store[NewJobId] = NoJob
  /\ store' = [store EXCEPT ![NewJobId] = initializeJob(NewJobId, clock)]
  /\ clock' = clock + 1
  /\ UNCHANGED <<transcripts, calls, overlaps, procs, nonJobVars>>

\* an updateJob that starts from a new record when the job has none
UpdateJobRead_Upsert(p) ==
  LET pr == procs[p]
      currentData == IF store[pr.job] = NoJob
                     THEN initializeJob(pr.job, clock)
                     ELSE store[pr.job]
  IN /\ pr.pc = "upd_read"
     /\ procs' = [procs EXCEPT ![p] =
          [pr EXCEPT !.cur = currentData,
                     !.upd = JobUpdater(currentData, pr.req, clock),
                     !.pc = "upd_write"]]
     /\ clock' = IF Stamps(currentData, pr.req) THEN clock + 1 ELSE clock
     /\ UNCHANGED <<store, transcripts, calls, overlaps, nonJobVars>>

\* JobStorage.updateJob, first half: getJob, then the updater on what it read
UpdateJobRead(p) ==
  LET pr == procs[p]
      currentData == store[pr.job]
  IN /\ pr.pc = "upd_read"
     /\ IF currentData = NoJob
        THEN /\ procs' = [procs EXCEPT ![p] = Throw(pr, "Job not found")]
             /\ UNCHANGED clock
        ELSE /\ procs' = [procs EXCEPT ![p] =
                  [pr EXCEPT !.cur = currentData,
                             !.upd = JobUpdater(currentData, pr.req, clock),
                             !.pc = "upd_write"]]
             /\ clock' = IF Stamps(currentData, pr.req) THEN clock + 1
                         ELSE clock
     /\ UNCHANGED <<store, transcripts, calls, overlaps, nonJobVars>>

\* a compare-and-set save: a record that changed since the read is kept
SavedJob_Versioned(pr, stored) == IF stored = pr.cur THEN pr.upd ELSE stored

\* what saveJob puts under job:<jobId>: the updater's result, whatever the
\* store holds by now
SavedJob(pr, stored) == pr.upd

\* JobStorage.updateJob, second half: saveJob; updateJob then returns
UpdateJobWrite(p) ==
  LET pr == procs[p]
  IN /\ pr.pc = "upd_write"
     /\ store' = [store EXCEPT ![pr.job] = SavedJob(pr, store[pr.job])]
     /\ procs' = [procs EXCEPT ![p] =
          IF pr.after \in EndPcs THEN Ended(pr, pr.after)
          ELSE [pr EXCEPT !.pc = pr.after, !.req = EmptyRequest,
                          !.cur = NoJob, !.upd = NoJob, !.after = ""]]
     /\ UNCHANGED <<transcripts, clock, calls, overlaps, nonJobVars>>

\* the caller takes the invocation's outcome
Return(p) ==
  /\ procs[p].pc \in EndPcs
  /\ procs' = [procs EXCEPT ![p] = IdleProc]
  /\ UNCHANGED <<store, transcripts, clock, calls, overlaps, nonJobVars>>

\* PATCH /:jobId -> updateJob(env, jobId, updateData)
PatchJob(p, jobId, updateData) ==
  /\ MayStart(p)
  /\ procs' = [procs EXCEPT ![p] =
       CallUpdateJob([IdleProc EXCEPT !.op = "patch", !.job = jobId],
                     updateData, "ret_ok")]
  /\ CountStart(p)
  /\ UNCHANGED <<store, transcripts, clock, nonJobVars>>

---------------------------------------------------------------------------
(* processTranscript *)

\* entry, up to the first updateJobStatus(PROCESSING)
ProcessTranscriptStart(p, jobId) ==
  /\ MayStart(p)
  /\ procs' = [procs EXCEPT ![p] =
       CallUpdateJob([IdleProc EXCEPT !.op = "processTranscript",
                                      !.job = jobId, !.intry = TRUE],
                     updateJobStatus(PROCESSING, Absent), "pt_getraw")]
  /\ CountStart(p)
  /\ UNCHANGED <<store, transcripts, clock, nonJobVars>>

\* jobData = await getRawJobData(env, jobId)
ProcessTranscriptGetJob(p) ==
  LET pr == procs[p]
  IN /\ pr.pc = "pt_getraw"
     /\ procs' = [procs EXCEPT ![p] =
          IF store[pr.job] = NoJob
          THEN Throw(pr, "job not found")
          ELSE [pr EXCEPT !.pc = "pt_zoom"]]
     /\ UNCHANGED <<store, transcripts, clock, calls, overlaps, nonJobVars>>

\* getTranscriptFileInfo and downloadTranscript: found and downloaded, no
\* transcript file, or the Zoom API fails
ProcessTranscriptDownload(p) ==
  LET pr == procs[p]
  IN /\ pr.pc = "pt_zoom"
     /\ \E outcome \in {"ok", "nofile", "error"} :
          procs' = [procs EXCEPT ![p] =
            CASE outcome = "ok" -> [pr EXCEPT !.pc = "pt_save"]
              [] outcome = "nofile" -> Throw(pr, "transcript file not found")
              [] outcome = "error" -> Throw(pr, "zoom api error")]
     /\ UNCHANGED <<store, transcripts, clock, calls, overlaps, nonJobVars>>

\* the status processTranscript records after the transcript is saved
processTranscriptSuccess == updateJobStatus(COMPLETED, Absent)

\* a flow that records COMPLETED without saving the transcript
ProcessTranscriptSave_StatusOnly(p) ==
  LET pr == procs[p]
  IN /\ pr.pc = "pt_save"
     /\ procs' = [procs EXCEPT ![p] =
          CallUpdateJob(pr, processTranscriptSuccess, "ret_ok")]
     /\ UNCHANGED <<store, transcripts, clock, calls, overlaps, nonJobVars>>

\* parseVttTranscript, saveTranscript, then updateJobStatus(COMPLETED)
ProcessTranscriptSave(p) ==
  LET pr == procs[p]
  IN /\ pr.pc = "pt_save"
     /\ \E rawText \in JobTexts :
          transcripts' = [transcripts EXCEPT ![pr.job] = [rawText |-> rawText]]
     /\ procs' = [procs EXCEPT ![p] =
          CallUpdateJob(pr, processTranscriptSuccess, "ret_ok")]
     /\ UNCHANGED <<store, clock, calls, overlaps, nonJobVars>>

---------------------------------------------------------------------------
(* startTranscriptProcessing *)

StartTranscriptProcessing(p, jobId) ==
  /\ MayStart(p)
  /\ procs' = [procs EXCEPT ![p] =
       [IdleProc EXCEPT !.op = "startTranscriptProcessing", !.job = jobId,
                        !.pc = "st_get"]]
  /\ CountStart(p)
  /\ UNCHANGED <<store, transcripts, clock, nonJobVars>>

\* a start that does not look at the status
MayProcessTranscript_Always(job) == TRUE

\* the job passes the check job.status !== PENDING
MayProcessTranscript(job) == job.status = PENDING

\* void processTranscript(env, jobId): the flow runs up to its first await
ProcessTranscriptFlow(jobId) ==
  CallUpdateJob([IdleProc EXCEPT !.op = "processTranscript", !.job = jobId,
                                 !.intry = TRUE],
                updateJobStatus(PROCESSING, Absent), "pt_getraw")

\* getJob has answered: a missing job and a job that is not PENDING are
\* refused, otherwise the flow is started
StartTranscriptCheck(p) ==
  LET pr == procs[p]
      job == store[pr.job]
  IN /\ pr.pc = "st_get"
     /\ procs' = [procs EXCEPT ![p] =
          IF job = NoJob THEN Ended(pr, "ret_refused")
          ELSE IF ~MayProcessTranscript(job) THEN Ended(pr, "ret_refused")
          ELSE ProcessTranscriptFlow(pr.job)]
     /\ UNCHANGED <<store, transcripts, clock, calls, overlaps, nonJobVars>>

---------------------------------------------------------------------------
(* classifyMeetingForJob *)

ClassifyStart(p, jobId) ==
  /\ MayStart(p)
  /\ procs' = [procs EXCEPT ![p] =
       [IdleProc EXCEPT !.op = "classify", !.job = jobId, !.pc = "cl_get"]]
  /\ CountStart(p)
  /\ UNCHANGED <<store, transcripts, clock, nonJobVars>>

\* a classification that is always redone
AlreadyClassified_Never(jobData) == FALSE

\* if (jobData.category)
AlreadyClassified(jobData) == jobData.category # Absent

\* jobData.reason || the default reason of an existing classification
ExistingReason == "existing classification"
\* what classifyMeetingForJob returns for a job that is already classified
ExistingClassification(jobData) ==
  [category |-> jobData.category,
   reason |-> IF jobData.reason \in {Absent, ""} THEN ExistingReason
              ELSE jobData.reason,
   shouldProcess |-> shouldProcessMeeting(jobData.category)]

\* getRawJobData; a job that already has a category returns at once
ClassifyGetJob(p) ==
  LET pr == procs[p]
      jobData == store[pr.job]
  IN /\ pr.pc = "cl_get"
     /\ procs' = [procs EXCEPT ![p] =
          IF jobData = NoJob THEN Throw(pr, "job not found")
          ELSE IF AlreadyClassified(jobData)
          THEN Ended([pr EXCEPT !.ret = ExistingClassification(jobData)],
                     "ret_ok")
          ELSE [pr EXCEPT !.pc = "cl_transcript"]]
     /\ UNCHANGED <<store, transcripts, clock, calls, overlaps, nonJobVars>>

\* classifyMeeting: getTranscriptByJobId
ClassifyGetTranscript(p) ==
  LET pr == procs[p]
  IN /\ pr.pc = "cl_transcript"
     /\ procs' = [procs EXCEPT ![p] =
          IF transcripts[pr.job] = NoTranscript
          THEN Throw(pr, "transcript not found")
          ELSE [pr EXCEPT !.pc = "cl_ai"]]
     /\ UNCHANGED <<store, transcripts, clock, calls, overlaps, nonJobVars>>

\* a classification after which every meeting is processed
ClassifiedStatus_Always(category) == PROCESSING

\* the status the classification result is saved with
ClassifiedStatus(category) ==
  IF shouldProcessMeeting(category) THEN PROCESSING ELSE SKIPPED

\* a classifyText that takes the outcome of the call as it comes
classifyText_Raw(answer) == [category |-> answer, reason |-> ""]

\* classifyText's result: the parsed category and the reason of the reply, or
\* OTHER with a fixed reason when the call raised
classifyText(answer) ==
  IF answer = "raised"
  THEN [category |-> OTHER_CATEGORY, reason |-> "classification failed"]
  ELSE [category |-> answer, reason |-> "because"]

\* the update classifyMeetingForJob saves the result with
ClassificationRequest(answer) ==
  LET result == classifyText(answer)
  IN [EmptyRequest EXCEPT !.category = result.category,
                          !.reason = result.reason,
                          !.status = ClassifiedStatus(result.category)]

\* what classifyMeetingForJob returns after saving: { result, shouldProcess }
ClassificationReturn(answer) ==
  LET result == classifyText(answer)
  IN [category |-> result.category, reason |-> result.reason,
      shouldProcess |-> shouldProcessMeeting(result.category)]

\* classifyText (the external call answers a category or raises), then
\* updateJob with the result
ClassifyText(p) ==
  LET pr == procs[p]
  IN /\ pr.pc = "cl_ai"
     /\ \E answer \in MeetingCategory \cup {"raised"} :
          procs' = [procs EXCEPT ![p] =
            CallUpdateJob([pr EXCEPT !.answer = answer,
                                     !.ret = ClassificationReturn(answer)],
                          ClassificationRequest(answer), "ret_ok")]
     /\ UNCHANGED <<store, transcripts, clock, calls, overlaps, nonJobVars>>

---------------------------------------------------------------------------
(* summarizeJobTranscript *)

SummarizeStart(p, jobId, request, options) ==
  /\ MayStart(p)
  /\ procs' = [procs EXCEPT ![p] =
       [IdleProc EXCEPT !.op = "summarize", !.job = jobId, !.intry = TRUE,
                        !.request = request, !.options = options,
                        !.pc = "sm_get"]]
  /\ CountStart(p)
  /\ UNCHANGED <<store, transcripts, clock, nonJobVars>>

\* a summarization that puts the job back in the queue
summarizeStartRequest_Pending == [EmptyRequest EXCEPT !.status = PENDING]

\* the status summarizeJobTranscript records before / after generating
summarizeStartRequest == [EmptyRequest EXCEPT !.status = PROCESSING]
summarizeSuccess == [EmptyRequest EXCEPT !.status = COMPLETED]

\* getRawJobData, then updateJob({status: PROCESSING})
SummarizeGetJob(p) ==
  LET pr == procs[p]
  IN /\ pr.pc = "sm_get"
     /\ procs' = [procs EXCEPT ![p] =
          IF store[pr.job] = NoJob
          THEN Throw(pr, "job not found")
          ELSE CallUpdateJob(pr, summarizeStartRequest, "sm_text")]
     /\ UNCHANGED <<store, transcripts, clock, calls, overlaps, nonJobVars>>

\* generateMinutes begins with splitTextIntoChunks, which runs without an
\* await: the invocation either reaches the first generation call or stays in
\* the chunking loop
EnterGenerateMinutes(pr, t) ==
  [pr EXCEPT !.text = t,
             !.pc = IF SplitReturns(t, pr.options) THEN "sm_generate"
                    ELSE "sm_chunking"]

\* let text = fullText, else the joined transcriptEntries, else the stored
\* transcript's rawText; then generateMinutes
SummarizeResolveText(p) ==
  LET pr == procs[p]
      stored == transcripts[pr.job]
  IN /\ pr.pc = "sm_text"
     /\ procs' = [procs EXCEPT ![p] =
          IF pr.request.fullText # <<>>
          THEN EnterGenerateMinutes(pr, pr.request.fullText)
          ELSE IF pr.request.entries # NoEntries
          THEN EnterGenerateMinutes(pr, pr.request.entries)
          ELSE IF stored = NoTranscript
          THEN Throw(pr, "transcript not found")
          ELSE EnterGenerateMinutes(pr, stored.rawText)]
     /\ UNCHANGED <<store, transcripts, clock, calls, overlaps, nonJobVars>>

\* the generation calls of generateMinutes all answer, or one of them fails;
\* on success updateJob({status: COMPLETED})
SummarizeGenerate(p) ==
  LET pr == procs[p]
  IN /\ pr.pc = "sm_generate"
     /\ \E ok \in BOOLEAN :
          procs' = [procs EXCEPT ![p] =
            IF ok THEN CallUpdateJob(pr, summarizeSuccess, "ret_ok")
            ELSE Throw(pr, "gemini api error")]
     /\ UNCHANGED <<store, transcripts, clock, calls, overlaps, nonJobVars>>

---------------------------------------------------------------------------
(* startSummarization *)

StartSummarization(p, jobId, request) ==
  /\ MayStart(p)
  /\ procs' = [procs EXCEPT ![p] =
       [IdleProc EXCEPT !.op = "startSummarization", !.job = jobId,
                        !.request = request, !.pc = "ss_get"]]
  /\ CountStart(p)
  /\ UNCHANGED <<store, transcripts, clock, nonJobVars>>

\* the job fails the check job.status === COMPLETED
SummarizationRefused(job) == job.status = COMPLETED

\* void summarizeJobTranscript(env, request): no options are handed on
SummarizeFlow(jobId, request) ==
  [IdleProc EXCEPT !.op = "summarize", !.job = jobId, !.intry = TRUE,
                   !.request = request, !.pc = "sm_get"]

\* getRawJobData has answered: a missing job and a COMPLETED job are refused,
\* otherwise the flow is started
StartSummarizationCheck(p) ==
  LET pr == procs[p]
      job == store[pr.job]
  IN /\ pr.pc = "ss_get"
     /\ procs' = [procs EXCEPT ![p] =
          IF job = NoJob THEN Ended(pr, "ret_refused")
          ELSE IF SummarizationRefused(job) THEN Ended(pr, "ret_refused")
          ELSE SummarizeFlow(pr.job, pr.request)]
     /\ UNCHANGED <<store, transcripts, clock, calls, overlaps, nonJobVars>>

---------------------------------------------------------------------------
(* outputMinutesToNotion *)

NotionStart(p, jobId) ==
  /\ MayStart(p)
  /\ procs' = [procs EXCEPT ![p] =
       [IdleProc EXCEPT !.op = "notion", !.job = jobId, !.intry = TRUE,
                        !.pc = "no_page"]]
  /\ CountStart(p)
  /\ UNCHANGED <<store, transcripts, clock, nonJobVars>>

notionSuccess ==
  [EmptyRequest EXCEPT !.notionPageId = "page", !.notionPageUrl = "url",
                       !.status = COMPLETED]

\* createPage answers a page id or fails; on success updateJob with the page
NotionCreatePage(p) ==
  LET pr == procs[p]
  IN /\ pr.pc = "no_page"
     /\ \E ok \in BOOLEAN :
          procs' = [procs EXCEPT ![p] =
            IF ok THEN CallUpdateJob(pr, notionSuccess, "ret_ok")
            ELSE Throw(pr, "notion api error")]
     /\ UNCHANGED <<store, transcripts, clock, calls, overlaps, nonJobVars>>

---------------------------------------------------------------------------
(* The job flows as a state machine *)

\* the store is empty and nothing is in flight
JobsIdle ==
  /\ store = [j \in JobIds |-> NoJob]
  /\ transcripts = [j \in JobIds |-> NoTranscript]
  /\ clock = 1
  /\ calls = 0
  /\ overlaps = 0
  /\ procs = [p \in Procs |-> IdleProc]

\* splitTextIntoChunks is not running
ChunkIdle ==
  /\ text = <<>>
  /\ optChunkSize = 0
  /\ optChunkOverlap = 0
  /\ startPos = 0
  /\ endPos = 0
  /\ chunkId = 0
  /\ chunks = <<>>
  /\ splitPc = "idle"

\* neither generateMinutes nor analyzeAllTopics is running
TopicIdle ==
  /\ entry = "none"
  /\ topicChunks = <<>>
  /\ topicCalls = <<>>
  /\ resolved = <<>>
  /\ batchIndex = 0
  /\ topics = <<>>
  /\ analyzeError = 0
  /\ summaryCall = "none"
  /\ topicPc = "idle"

\* parseVttTranscript is not running
VttIdle ==
  /\ vttContent = <<>>
  /\ vttOptions = [extractSpeakers |-> TRUE, combineLines |-> TRUE,
                   removeFiller |-> FALSE]
  /\ lineIndex = 0
  /\ currentEntry = <<>>
  /\ entries = <<>>
  /\ speakerSet = <<>>
  /\ finalEntries = <<>>
  /\ transcript = <<>>
  /\ vttPc = "idle"

\* none of the minutes functions is running
MinutesIdle ==
  /\ minutesEntry = "none"
  /\ summaryMarkdown = <<>>
  /\ globalSummary = <<>>
  /\ minuteTopics = <<>>
  /\ timeline = <<>>
  /\ resorted = <<>>
  /\ minutes = <<>>
  /\ minutesPc = "idle"

\* a settlement that carries no value / no error
NoValue == "novalue"
NoError == [kind |-> "none", message |-> "", ref |-> 0]
\* nothing is wrapped and no text is sampled
UtilIdle ==
  /\ innerOutcome = [ok |-> TRUE, value |-> NoValue, error |-> NoError]
  /\ settled = [ok |-> TRUE, value |-> NoValue, error |-> NoError]
  /\ wrapperCount = 0
  /\ wrapped = 0
  /\ fullText = <<>>
  /\ sampleOptions = [maxTextLength |-> 0, sampleMethod |-> "none"]
  /\ sampleIndex = 0
  /\ sample = <<>>
  /\ samplePc = "idle"

Init ==
  /\ JobsIdle
  /\ ChunkIdle
  /\ TopicIdle
  /\ VttIdle
  /\ MinutesIdle
  /\ UtilIdle

\* a step of the store or of an invocation in flight
Step ==
  \/ CreateJob
  \/ \E p \in Procs : UpdateJobRead(p)
  \/ \E p \in Procs : UpdateJobWrite(p)
  \/ \E p \in Procs : Return(p)
  \/ \E p \in Procs : ProcessTranscriptGetJob(p)
  \/ \E p \in Procs : ProcessTranscriptDownload(p)
  \/ \E p \in Procs : ProcessTranscriptSave(p)
  \/ \E p \in Procs : ClassifyGetJob(p)
  \/ \E p \in Procs : ClassifyGetTranscript(p)
  \/ \E p \in Procs : ClassifyText(p)
  \/ \E p \in Procs : SummarizeGetJob(p)
  \/ \E p \in Procs : SummarizeResolveText(p)
  \/ \E p \in Procs : SummarizeGenerate(p)
  \/ \E p \in Procs : NotionCreatePage(p)
  \/ \E p \in Procs : StartTranscriptCheck(p)
  \/ \E p \in Procs : StartSummarizationCheck(p)

\* a caller starts an invocation on p
Start(p) ==
  \/ \E j \in JobIds, r \in PatchRequests : PatchJob(p, j, r)
  \/ \E j \in JobIds : ProcessTranscriptStart(p, j)
  \/ \E j \in JobIds : ClassifyStart(p, j)
  \/ \E j \in JobIds, r \in SummarizeRequests, o \in SummarizationOptions :
        SummarizeStart(p, j, r, o)
  \/ \E j \in JobIds : NotionStart(p, j)
  \/ \E j \in JobIds : StartTranscriptProcessing(p, j)
  \/ \E j \in JobIds, r \in SummarizeRequests : StartSummarization(p, j, r)

Next == Step \/ \E p \in Procs : Start(p)

Spec == Init /\ [][Next]_vars

\* one invocation at a time: a start waits until nothing else is in flight
SeqStart(p) == ~Overlaps(p) /\ Start(p)

SeqNext == Step \/ \E p \in Procs : SeqStart(p)

SeqSpec == Init /\ [][SeqNext]_vars

\* one invocation at a time, and an invocation in flight keeps running: every
\* awaited call returns or fails, and the caller takes the outcome
LiveSpec == SeqSpec /\ WF_vars(Step)

---------------------------------------------------------------------------
(* splitTextIntoChunks as a state machine *)

Alphabet == {"a", ".", "\n"}

RECURSIVE TextsOfLength(_)
TextsOfLength(n) ==
  IF n = 0 THEN {<<>>}
  ELSE {Append(t, c) : t \in TextsOfLength(n - 1), c \in Alphabet}

\* the transcript of the end-to-end scenario: 20,000 characters, no sentence
\* terminator and no newline
ScenarioText == [i \in 1..20000 |-> "a"]

ChunkTexts == UNION {TextsOfLength(n) : n \in 0..MaxTextLen}

chunkSize == EffectiveChunkSize(optChunkSize)
chunkOverlap == EffectiveChunkOverlap(optChunkOverlap)

\* splitTextIntoChunks(text, options) is entered: with an enumerated text and
\* enumerated options, or with the scenario's text and the default options
ChunkInit ==
  /\ JobsIdle
  /\ TopicIdle
  /\ VttIdle
  /\ MinutesIdle
  /\ UtilIdle
  /\ \/ /\ text \in ChunkTexts
        /\ optChunkSize \in 0..MaxChunkOpt
        /\ optChunkOverlap \in 0..MaxChunkOpt
     \/ /\ text = ScenarioText
        /\ optChunkSize = 0
        /\ optChunkOverlap = 0
  /\ startPos = 0
  /\ endPos = 0
  /\ chunkId = 0
  /\ chunks = <<>>
  /\ splitPc = "loop"

\* one pass of the while loop
SplitIterate ==
  /\ splitPc = "loop"
  /\ startPos < Len(text)
  /\ Len(chunks) < MaxChunks
  /\ LET e == ChunkEnd(text, startPos, chunkSize)
     IN /\ endPos' = e
        /\ chunks' = Append(chunks, [id |-> chunkId,
                                     text |-> Substring(text, startPos, e)])
        /\ chunkId' = chunkId + 1
        /\ startPos' = NextStartPos(e, chunkOverlap)
  /\ UNCHANGED <<text, optChunkSize, optChunkOverlap, splitPc, nonChunkVars>>

\* the loop condition fails: return chunks
SplitReturn ==
  /\ splitPc = "loop"
  /\ ~(startPos < Len(text))
  /\ splitPc' = "done"
  /\ UNCHANGED <<text, optChunkSize, optChunkOverlap, startPos, endPos,
                 chunkId, chunks, nonChunkVars>>

ChunkNext == SplitIterate \/ SplitReturn

ChunkSpec == ChunkInit /\ [][ChunkNext]_vars

---------------------------------------------------------------------------
(* generateMinutes, steps 2 to 4, and analyzeAllTopics as a state machine *)

\* a wider batch
maxConcurrent_Wide == 3 + 1

\* const maxConcurrent
maxConcurrent == 3

\* ids a chunk array starts from: chunkId++ from 0, or a caller's own ids
ChunkIdBases == {0, 7}
\* a response without an id field
NoId == -1
\* the id field of the external response: none, or a number of its own
ResponseIds == {NoId, 0}

\* a call that was not dispatched / is in flight
NoJson == [id |-> NoId, about |-> 0]
NoCall == [st |-> "none", json |-> NoJson]
InFlight == [st |-> "inflight", json |-> NoJson]

\* generateJson's reply to the prompt of the k-th chunk, carrying id rid
TopicJson(k, rid) == [id |-> rid, about |-> k]

\* the answer that ignores the appended chunk id
analyzeTopicFromChunk_Trusting(chunk, topicJson) == topicJson

\* analyzeTopicFromChunk's return value: { ...topicJson, id: chunk.id }
analyzeTopicFromChunk(chunk, topicJson) == [topicJson EXCEPT !.id = chunk.id]

\* chunks.slice(i, i + maxConcurrent), as 1-based positions
Batch(i) == {k \in 1..Len(topicChunks) : i < k /\ k <= i + maxConcurrent}

\* a rejection that is swallowed
Rejects_Never(call) == FALSE

\* the promise of a call is rejected
Rejects(call) == call.st = "failed"

\* the positions of a batch in the order their calls settled
RECURSIVE InSettlingOrder(_, _)
InSettlingOrder(seq, batch) ==
  IF seq = <<>> THEN <<>>
  ELSE IF Head(seq) \in batch
       THEN <<Head(seq)>> \o InSettlingOrder(Tail(seq), batch)
       ELSE InSettlingOrder(Tail(seq), batch)

\* results collected as the calls settle
BatchResults_ByCompletion(i) ==
  LET order == InSettlingOrder(resolved, Batch(i))
  IN [j \in 1..Len(order) |->
        analyzeTopicFromChunk(topicChunks[order[j]], topicCalls[order[j]].json)]

\* what Promise.all resolves to: the results in the order of the batch
BatchResults(i) ==
  [j \in 1..Cardinality(Batch(i)) |->
     analyzeTopicFromChunk(topicChunks[i + j], topicCalls[i + j].json)]

\* generateMinutes has split the text and awaits generateGlobalSummary, or
\* analyzeAllTopics is entered with a chunk array of its caller
TopicInit ==
  /\ JobsIdle
  /\ ChunkIdle
  /\ VttIdle
  /\ MinutesIdle
  /\ UtilIdle
  /\ entry \in {"generateMinutes", "analyzeAllTopics"}
  /\ \E n \in 0..MaxTopicChunks, base \in ChunkIdBases :
       /\ topicChunks = [k \in 1..n |-> [id |-> base + k - 1]]
       /\ topicCalls = [k \in 1..n |-> NoCall]
  /\ resolved = <<>>
  /\ batchIndex = 0
  /\ topics = <<>>
  /\ analyzeError = 0
  /\ summaryCall = IF entry = "generateMinutes" THEN "inflight" ELSE "none"
  /\ topicPc = IF entry = "generateMinutes" THEN "gm_summary" ELSE "loop"

\* await generateGlobalSummary: it returns (then parseGlobalSummary, then
\* analyzeAllTopics is called) or it throws out of generateMinutes
SummaryResolve ==
  /\ topicPc = "gm_summary"
  /\ \E ok \in BOOLEAN :
       /\ summaryCall' = IF ok THEN "ok" ELSE "failed"
       /\ topicPc' = IF ok THEN "loop" ELSE "raised"
  /\ UNCHANGED <<entry, topicChunks, topicCalls, resolved, batchIndex, topics,
                 analyzeError, nonTopicVars>>

\* the for loop's body up to its await: batch.map dispatches every call of
\* the batch
DispatchBatch ==
  /\ topicPc = "loop"
  /\ batchIndex < Len(topicChunks)
  /\ topicCalls' = [k \in 1..Len(topicChunks) |->
                      IF k \in Batch(batchIndex) THEN InFlight
                      ELSE topicCalls[k]]
  /\ topicPc' = "await"
  /\ UNCHANGED <<entry, topicChunks, resolved, batchIndex, topics,
                 analyzeError, summaryCall, nonTopicVars>>

\* the external interface settles the call of chunk k: a reply, or an error.
\* The first rejection in the awaited batch is the one Promise.all takes.
CallSettle(k) ==
  /\ k \in 1..Len(topicChunks)
  /\ topicCalls[k].st = "inflight"
  /\ \E ok \in BOOLEAN, rid \in ResponseIds :
       /\ ~ok => rid = NoId
       /\ topicCalls' = [topicCalls EXCEPT ![k] =
            IF ok THEN [st |-> "ok", json |-> TopicJson(k, rid)]
            ELSE [st |-> "failed", json |-> NoJson]]
       /\ analyzeError' =
            IF /\ topicPc = "await" /\ analyzeError = 0
               /\ Rejects(topicCalls'[k])
            THEN k ELSE analyzeError
  /\ resolved' = Append(resolved, k)
  /\ UNCHANGED <<entry, topicChunks, batchIndex, topics, summaryCall, topicPc,
                 nonTopicVars>>

\* await Promise.all throws: the rejection leaves analyzeAllTopics
BatchRejected ==
  /\ topicPc = "await"
  /\ analyzeError # 0
  /\ topicPc' = "raised"
  /\ UNCHANGED <<entry, topicChunks, topicCalls, resolved, batchIndex, topics,
                 analyzeError, summaryCall, nonTopicVars>>

\* await Promise.all returns: topics.push(...batchResults); i += maxConcurrent
BatchResolved ==
  /\ topicPc = "await"
  /\ analyzeError = 0
  /\ \A k \in Batch(batchIndex) : topicCalls[k].st \in {"ok", "failed"}
  /\ topics' = topics \o BatchResults(batchIndex)
  /\ batchIndex' = batchIndex + maxConcurrent
  /\ topicPc' = "loop"
  /\ UNCHANGED <<entry, topicChunks, topicCalls, resolved, analyzeError,
                 summaryCall, nonTopicVars>>

\* the loop condition fails: return topics
AnalyzeReturn ==
  /\ topicPc = "loop"
  /\ ~(batchIndex < Len(topicChunks))
  /\ topicPc' = "returned"
  /\ UNCHANGED <<entry, topicChunks, topicCalls, resolved, batchIndex, topics,
                 analyzeError, summaryCall, nonTopicVars>>

TopicNext ==
  \/ SummaryResolve
  \/ DispatchBatch
  \/ \E k \in 1..MaxTopicChunks : CallSettle(k)
  \/ BatchRejected
  \/ BatchResolved
  \/ AnalyzeReturn

TopicSpec == TopicInit /\ [][TopicNext]_vars

---------------------------------------------------------------------------
(* parseVttTranscript as a state machine *)

\* a time that is missing (undefined)
NoCueTime == 0
\* a speaker that is missing (undefined, or extractSpeaker's '')
NoSpeaker == ""

\* a line of the caption file, by what the parser reads from it: whether it
\* includes '-->', its two sides of ' --> ', what extractSpeaker finds in it
\* and what extractCleanText leaves of it. A text is a sequence of words and
\* of the separators " " and "\n".
CueLine(s, e) ==
  [kind |-> "cue", startTime |-> s, endTime |-> e, speaker |-> NoSpeaker,
   text |-> <<>>]
TextLine(sp, t) ==
  [kind |-> "text", startTime |-> NoCueTime, endTime |-> NoCueTime,
   speaker |-> sp, text |-> t]

\* the enumerated lines: a cue, a cue that ends before it starts (and, after
\* the first, starts after the next), a line of speaker A, a line of speaker
\* B made of a filler word
LineAlphabet ==
  {CueLine(1, 2), CueLine(2, 1), TextLine("A", <<"x">>),
   TextLine("B", <<"um">>)}

\* vttContent.split('\n')
VttContents == UNION {[1..n -> LineAlphabet] : n \in 0..MaxLines}

\* VttParseOptions, defaults applied
VttParseOptions ==
  [extractSpeakers : BOOLEAN, combineLines : BOOLEAN, removeFiller : BOOLEAN]

extractSpeaker(line) == line.speaker
extractCleanText(line) == line.text

\* currentEntry?.text && currentEntry.startTime && currentEntry.endTime
CompleteEntry(cur) ==
  /\ cur # <<>>
  /\ cur[1].text # <<>>
  /\ cur[1].startTime # NoCueTime
  /\ cur[1].endTime # NoCueTime

\* Array.prototype.join on texts
RECURSIVE JoinTexts(_, _)
JoinTexts(texts, sep) ==
  IF texts = <<>> THEN <<>>
  ELSE IF Len(texts) = 1 THEN texts[1]
  ELSE texts[1] \o <<sep>> \o JoinTexts(Tail(texts), sep)

\* entries.map(entry => entry.text)
TextsOf(es) == [i \in 1..Len(es) |-> es[i].text]

\* a group that keeps the end time of its first entry
ExtendGroup_KeepEnd(currentGroup, e) ==
  [currentGroup EXCEPT !.text = @ \o <<" ">> \o e.text]

\* combineConsecutiveSpeakerLines, same speaker: the text is appended after a
\* space and the end time is the entry's
ExtendGroup(currentGroup, e) ==
  [currentGroup EXCEPT !.text = @ \o <<" ">> \o e.text,
                       !.endTime = e.endTime]

\* the for loop of combineConsecutiveSpeakerLines and its final push
RECURSIVE CombineFrom(_, _, _)
CombineFrom(rest, result, currentGroup) ==
  IF rest = <<>> THEN result \o currentGroup
  ELSE IF currentGroup = <<>> \/ currentGroup[1].speaker # Head(rest).speaker
       THEN CombineFrom(Tail(rest), result \o currentGroup, <<Head(rest)>>)
       ELSE CombineFrom(Tail(rest), result,
                        <<ExtendGroup(currentGroup[1], Head(rest))>>)

combineConsecutiveSpeakerLines(es) == CombineFrom(es, <<>>, <<>>)

\* the array passed to combineConsecutiveSpeakerLines, after the call: a
\* group is a copy ({ ...entry }) of the entry that opens it, so appending to
\* the group leaves the entry as it was
EntriesAfterCombine(es) == es

\* the words the filler and redundant-phrase patterns match
FillerWords == {"um"}

\* removeFillerWords on one text: every match replaced by a space, runs of
\* whitespace replaced by one space, trimmed
CleanedText(t) ==
  LET words == SelectSeq(t, LAMBDA w : w \notin FillerWords \cup {" "})
  IN JoinTexts([i \in 1..Len(words) |-> <<words[i]>>], " ")

removeFillerWords(es) ==
  [i \in 1..Len(es) |-> [es[i] EXCEPT !.text = CleanedText(@)]]

\* the text joined from the entries before the fillers are removed
RawTextOf_BeforeCleaning(finals, cleaned) == JoinTexts(TextsOf(finals), "\n")

\* cleanedEntries.map(entry => entry.text).join('\n')
RawTextOf(finals, cleaned) == JoinTexts(TextsOf(cleaned), "\n")

\* parseVttTranscript(vttContent, metadata, options) is entered
VttInit ==
  /\ JobsIdle
  /\ ChunkIdle
  /\ TopicIdle
  /\ MinutesIdle
  /\ UtilIdle
  /\ vttContent \in VttContents
  /\ vttOptions \in VttParseOptions
  /\ lineIndex = 1
  /\ currentEntry = <<>>
  /\ entries = <<>>
  /\ speakerSet = <<>>
  /\ finalEntries = <<>>
  /\ transcript = <<>>
  /\ vttPc = "header"

\* the while loop that skips the header: up to the first line with '-->'
VttSkipHeader ==
  /\ vttPc = "header"
  /\ lineIndex' =
       IF \E k \in 1..Len(vttContent) : vttContent[k].kind = "cue"
       THEN CHOOSE k \in 1..Len(vttContent) :
              /\ vttContent[k].kind = "cue"
              /\ \A h \in 1..(k - 1) : vttContent[h].kind # "cue"
       ELSE Len(vttContent) + 1
  /\ vttPc' = "lines"
  /\ UNCHANGED <<vttContent, vttOptions, currentEntry, entries, speakerSet,
                 finalEntries, transcript, nonVttVars>>

\* one pass of the for loop
VttParseLine ==
  /\ vttPc = "lines"
  /\ lineIndex <= Len(vttContent)
  /\ LET line == vttContent[lineIndex]
         speaker == extractSpeaker(line)
         cleanText == extractCleanText(line)
         takesSpeaker == /\ vttOptions.extractSpeakers
                         /\ currentEntry[1].speaker = NoSpeaker
                         /\ speaker # NoSpeaker
     IN IF line.kind = "cue"
        THEN /\ entries' = IF CompleteEntry(currentEntry)
                           THEN Append(entries, currentEntry[1])
                           ELSE entries
             /\ currentEntry' = <<[startTime |-> line.startTime,
                                   endTime |-> line.endTime,
                                   speaker |-> NoSpeaker, text |-> <<>>]>>
             /\ UNCHANGED speakerSet
        ELSE IF currentEntry # <<>>
        THEN /\ currentEntry' = <<[currentEntry[1] EXCEPT
                  !.speaker = IF takesSpeaker THEN speaker ELSE @,
                  !.text = IF cleanText = <<>> THEN @
                           ELSE IF @ # <<>> THEN @ \o <<" ">> \o cleanText
                           ELSE cleanText]>>
             /\ speakerSet' =
                  IF takesSpeaker /\ \A k \in 1..Len(speakerSet) :
                                       speakerSet[k] # speaker
                  THEN Append(speakerSet, speaker) ELSE speakerSet
             /\ UNCHANGED entries
        ELSE UNCHANGED <<currentEntry, entries, speakerSet>>
  /\ lineIndex' = lineIndex + 1
  /\ UNCHANGED <<vttContent, vttOptions, finalEntries, transcript, vttPc,
                 nonVttVars>>

\* the loop ends: the last entry is added
VttLastEntry ==
  /\ vttPc = "lines"
  /\ lineIndex > Len(vttContent)
  /\ entries' = IF CompleteEntry(currentEntry)
                THEN Append(entries, currentEntry[1]) ELSE entries
  /\ vttPc' = "combine"
  /\ UNCHANGED <<vttContent, vttOptions, lineIndex, currentEntry, speakerSet,
                 finalEntries, transcript, nonVttVars>>

\* const finalEntries = combineLines ? combineConsecutiveSpeakerLines(entries)
\*                                   : entries
VttCombine ==
  /\ vttPc = "combine"
  /\ finalEntries' = IF vttOptions.combineLines
                     THEN combineConsecutiveSpeakerLines(entries)
                     ELSE entries
  /\ entries' = IF vttOptions.combineLines
                THEN EntriesAfterCombine(entries) ELSE entries
  /\ vttPc' = "clean"
  /\ UNCHANGED <<vttContent, vttOptions, lineIndex, currentEntry, speakerSet,
                 transcript, nonVttVars>>

\* the fillers are removed, the metadata is updated, the texts are joined and
\* the transcript is returned
VttReturn ==
  /\ vttPc = "clean"
  /\ LET cleanedEntries == IF vttOptions.removeFiller
                           THEN removeFillerWords(finalEntries)
                           ELSE finalEntries
     IN transcript' =
          <<[metadata |-> [speakerCount |-> Len(speakerSet),
                           speakers |-> speakerSet],
             entries |-> cleanedEntries,
             rawText |-> RawTextOf(finalEntries, cleanedEntries)]>>
  /\ vttPc' = "returned"
  /\ UNCHANGED <<vttContent, vttOptions, lineIndex, currentEntry, entries,
                 speakerSet, finalEntries, nonVttVars>>

VttNext ==
  \/ VttSkipHeader
  \/ VttParseLine
  \/ VttLastEntry
  \/ VttCombine
  \/ VttReturn

VttSpec == VttInit /\ [][VttNext]_vars

---------------------------------------------------------------------------
(* parseGlobalSummary, generateTimelineFromTopics and the assembly of the
   minutes as a state machine *)

\* the literal the source uses for an unknown value (a two-character word)
UnknownMarker == "unknown"
\* the default location
DefaultLocation == "online"

\* a line of the summary markdown, by what the parser's patterns find in it:
\* one of the four labelled fields with the trimmed rest of its line (the
\* participants' already split at the commas and trimmed), one of the three
\* section headings, another ## heading, a '- ' or '* ' bullet with its text
\* (the marker removed), or a plain line
FieldLines ==
  {[kind |-> "purpose", value |-> <<"P">>],
   [kind |-> "participants", value |-> <<"A", "", UnknownMarker, "C">>],
   [kind |-> "date", value |-> <<"D">>],
   [kind |-> "location", value |-> <<"L">>]}
HeadingKinds == {"decisions", "summary", "actions", "heading"}
SummaryLines ==
  FieldLines \cup {[kind |-> k, value |-> <<>>] : k \in HeadingKinds}
    \cup {[kind |-> "bullet", value |-> <<"x">>],
          [kind |-> "bullet", value |-> <<"y">>],
          [kind |-> "text", value |-> <<"t">>]}

\* the summaries parseGlobalSummary is called with
SummaryMarkdowns == UNION {[1..n -> SummaryLines] : n \in 0..MaxSummaryLines}
\* the summaries generateMinutes is followed for
SummaryReplies == {<<>>} \cup {<<l>> : l \in FieldLines}

\* the least element of a non-empty set of positions
FirstOf(S) == CHOOSE i \in S : \A h \in S : i <= h

\* summaryMarkdown.match(/<label>:([^\n]+)/): the capture of the first match,
\* trimmed (<<>>: null)
FieldMatch(md, kind) ==
  LET hits == {i \in 1..Len(md) : md[i].kind = kind}
  IN IF hits = {} THEN <<>> ELSE md[FirstOf(hits)].value

\* a field that is empty when its label is absent
FieldOr_Empty(match, default) == IF match = <<>> THEN <<"">> ELSE match

\* match ? match[1].trim() : default
FieldOr(match, default) == IF match = <<>> THEN <<default>> ELSE match

\* a section that runs to the end of the document
SectionOf_ToEnd(md, kind) ==
  LET hits == {i \in 1..Len(md) : md[i].kind = kind}
  IN IF hits = {} THEN <<>> ELSE SubSeq(md, FirstOf(hits) + 1, Len(md))

\* summaryMarkdown.split(/^## <heading>/m)[1]?.split(/^##/m)[0] || ''
SectionOf(md, kind) ==
  LET hits == {i \in 1..Len(md) : md[i].kind = kind}
  IN IF hits = {} THEN <<>>
     ELSE LET a == FirstOf(hits)
              ends == {j \in (a + 1)..Len(md) : md[j].kind \in HeadingKinds}
          IN SubSeq(md, a + 1,
                    IF ends = {} THEN Len(md) ELSE FirstOf(ends) - 1)

\* the texts of the section's lines that start with '- ' or '* '
BulletsOf(section) ==
  LET bullets == SelectSeq(section, LAMBDA l : l.kind = "bullet")
  IN [i \in 1..Len(bullets) |-> bullets[i].value[1]]

parseGlobalSummary(md) ==
  [purpose |-> FieldOr(FieldMatch(md, "purpose"), UnknownMarker)[1],
   participants |->
     SelectSeq(FieldOr(FieldMatch(md, "participants"), UnknownMarker),
               LAMBDA q : q # "" /\ q # UnknownMarker),
   date |-> FieldOr(FieldMatch(md, "date"), UnknownMarker)[1],
   location |-> FieldOr(FieldMatch(md, "location"), DefaultLocation)[1],
   summary |-> SectionOf(md, "summary"),
   decisions |-> BulletsOf(SectionOf(md, "decisions")),
   actionItems |->
     LET tasks == BulletsOf(SectionOf(md, "actions"))
     IN [i \in 1..Len(tasks) |-> [task |-> tasks[i], priority |-> "medium"]],
   rawMarkdown |-> md]

\* a startTime that is missing or empty
NoStartTime == 0
\* the enumerated start times and speaker arrays of a topic
StartTimes == {NoStartTime, 1, 2}
SpeakerLists == {<<"A">>, <<"A", "B">>, <<"", UnknownMarker>>}

\* the sort's comparator
CompareTopics(a, b) ==
  IF a.startTime # NoStartTime /\ b.startTime # NoStartTime
  THEN a.startTime - b.startTime
  ELSE a.id - b.id

\* the comparator is a consistent comparison function for the elements of
\* ts: before, after and equal are transitive
ConsistentOn(ts) ==
  \A i, j, k \in 1..Len(ts) :
    /\ (CompareTopics(ts[i], ts[j]) < 0 /\ CompareTopics(ts[j], ts[k]) < 0)
         => CompareTopics(ts[i], ts[k]) < 0
    /\ (CompareTopics(ts[i], ts[j]) = 0 /\ CompareTopics(ts[j], ts[k]) = 0)
         => CompareTopics(ts[i], ts[k]) = 0

\* the rearrangements of ts
Permuted(ts) ==
  {[i \in 1..Len(ts) |-> ts[f[i]]] :
     f \in {g \in [1..Len(ts) -> 1..Len(ts)] :
              \A i, j \in 1..Len(ts) : g[i] = g[j] => i = j}}

\* what [...topics].sort(comparator) can return: with a consistent comparator
\* the one stable ascending arrangement; otherwise the order is left to the
\* implementation
SortOutcomes(ts) ==
  IF ConsistentOn(ts)
  THEN {[i \in 1..Len(ts) |-> ts[f[i]]] :
          f \in {g \in [1..Len(ts) -> 1..Len(ts)] :
                   /\ \A i, j \in 1..Len(ts) : g[i] = g[j] => i = j
                   /\ \A i, j \in 1..Len(ts) :
                        i < j =>
                          \/ CompareTopics(ts[g[i]], ts[g[j]]) < 0
                          \/ /\ CompareTopics(ts[g[i]], ts[g[j]]) = 0
                             /\ g[i] < g[j]}}
  ELSE Permuted(ts)

\* a collector that takes every value
KeepsSpeaker_Any(speaker) == TRUE

\* speaker && speaker !== <unknown marker>
KeepsSpeaker(speaker) == speaker # "" /\ speaker # UnknownMarker

\* values.forEach(v => { if (keeps(v)) allSpeakers.add(v) }), the set in
\* insertion order
RECURSIVE AddSpeakers(_, _)
AddSpeakers(allSpeakers, values) ==
  IF values = <<>> THEN allSpeakers
  ELSE AddSpeakers(
         IF /\ KeepsSpeaker(Head(values))
            /\ \A i \in 1..Len(allSpeakers) : allSpeakers[i] # Head(values)
         THEN Append(allSpeakers, Head(values)) ELSE allSpeakers,
         Tail(values))

\* topics.forEach(topic => topic.speakers.forEach(...))
RECURSIVE TopicSpeakers(_, _)
TopicSpeakers(allSpeakers, ts) ==
  IF ts = <<>> THEN allSpeakers
  ELSE TopicSpeakers(AddSpeakers(allSpeakers, Head(ts).speakers), Tail(ts))

\* generateMinutes has its global summary markdown and, from
\* analyzeAllTopics, one topic per chunk in chunk order; or
\* generateTimelineFromTopics is called with a topics array of any order; or
\* parseGlobalSummary is called with a markdown
MinutesInit ==
  /\ JobsIdle
  /\ ChunkIdle
  /\ TopicIdle
  /\ VttIdle
  /\ UtilIdle
  /\ minutesEntry \in
       {"generateMinutes", "generateTimelineFromTopics", "parseGlobalSummary"}
  /\ summaryMarkdown \in
       IF minutesEntry = "parseGlobalSummary" THEN SummaryMarkdowns
       ELSE IF minutesEntry = "generateMinutes" THEN SummaryReplies
       ELSE {<<>>}
  /\ \E n \in 0..MaxTopics :
       /\ minutesEntry = "parseGlobalSummary" => n = 0
       /\ \E ids \in Permuted([k \in 1..n |-> k - 1]) :
            /\ minutesEntry = "generateMinutes" =>
                 ids = [k \in 1..n |-> k - 1]
            /\ \E starts \in [1..n -> StartTimes],
                  spk \in [1..n -> SpeakerLists] :
                 /\ minutesEntry = "generateTimelineFromTopics" =>
                      \A k \in 1..n : spk[k] = <<"A">>
                 /\ minuteTopics =
                      [k \in 1..n |-> [id |-> ids[k], startTime |-> starts[k],
                                       speakers |-> spk[k]]]
  /\ globalSummary = <<>>
  /\ timeline = <<>>
  /\ resorted = <<>>
  /\ minutes = <<>>
  /\ minutesPc = IF minutesEntry = "generateTimelineFromTopics"
                 THEN "timeline" ELSE "parse"

\* parseGlobalSummary(summaryMarkdown) returns
ParseSummary ==
  /\ minutesPc = "parse"
  /\ globalSummary' = <<parseGlobalSummary(summaryMarkdown)>>
  /\ minutesPc' = IF minutesEntry = "generateMinutes" THEN "timeline"
                  ELSE "returned"
  /\ UNCHANGED <<minutesEntry, summaryMarkdown, minuteTopics, timeline,
                 resorted, minutes, nonMinutesVars>>

\* generateTimelineFromTopics(env, topics): a copy of the array is sorted and
\* returned with the markdown of the external call, or that call throws
TimelineSort ==
  /\ minutesPc = "timeline"
  /\ \E ok \in BOOLEAN :
       IF ok
       THEN /\ timeline' \in {<<out>> : out \in SortOutcomes(minuteTopics)}
            /\ minutesPc' = IF minutesEntry = "generateMinutes"
                            THEN "collect" ELSE "again"
       ELSE /\ minutesPc' = "raised"
            /\ UNCHANGED timeline
  /\ UNCHANGED <<minutesEntry, summaryMarkdown, globalSummary, minuteTopics,
                 resorted, minutes, nonMinutesVars>>

\* the caller passes the topics of the timeline it got to
\* generateTimelineFromTopics again
TimelineAgain ==
  /\ minutesPc = "again"
  /\ \E ok \in BOOLEAN :
       IF ok
       THEN /\ resorted' \in {<<out>> : out \in SortOutcomes(timeline[1])}
            /\ minutesPc' = "returned"
       ELSE /\ minutesPc' = "raised"
            /\ UNCHANGED resorted
  /\ UNCHANGED <<minutesEntry, summaryMarkdown, globalSummary, minuteTopics,
                 timeline, minutes, nonMinutesVars>>

\* generateMinutes, steps 6 and 7: the speakers are collected and the minutes
\* are put together
AssembleMinutes ==
  /\ minutesPc = "collect"
  /\ LET participants ==
           AddSpeakers(TopicSpeakers(<<>>, minuteTopics),
                       globalSummary[1].participants)
     IN minutes' = <<[participantCount |-> Len(participants),
                      participants |-> participants,
                      globalSummary |-> globalSummary[1],
                      timeline |-> timeline[1]]>>
  /\ minutesPc' = "returned"
  /\ UNCHANGED <<minutesEntry, summaryMarkdown, globalSummary, minuteTopics,
                 timeline, resorted, nonMinutesVars>>

MinutesNext ==
  \/ ParseSummary
  \/ TimelineSort
  \/ TimelineAgain
  \/ AssembleMinutes

MinutesSpec == MinutesInit /\ [][MinutesNext]_vars

---------------------------------------------------------------------------
(* asyncErrorHandler as a state machine *)

\* AppError and its subclasses
AppErrorKinds == {"AppError", "ValidationError", "APIError"}
\* the message given to what is neither an Error nor a string
UnknownErrorMessage == "unknown error"

\* what a function can throw: an AppError or one of its subclasses, a standard
\* Error, a string (message: the string), a plain object with a message
\* property, a number. ref names the object; 0: made by the function itself
Thrown ==
  {[kind |-> k, message |-> m, ref |-> 0] :
     k \in {"AppError", "ValidationError", "APIError", "Error", "string",
            "object"},
     m \in {"m1", "m2"}}
    \cup {[kind |-> "number", message |-> "", ref |-> 0]}

\* how the wrapped function settles
Settlements ==
  {[ok |-> TRUE, value |-> v, error |-> NoError] : v \in {"v1", "v2"}}
    \cup {[ok |-> FALSE, value |-> NoValue, error |-> e] : e \in Thrown}

\* a handler that wraps what it is given in a new AppError, whatever it is
handleError_Rewrap(error, ref) ==
  [kind |-> "AppError",
   message |-> IF error.kind \in AppErrorKinds \cup {"Error", "string"}
               THEN error.message ELSE UnknownErrorMessage,
   ref |-> ref]

\* handleError; ref names the AppError it creates, if it creates one
handleError(error, ref) ==
  IF error.kind \in AppErrorKinds THEN error
  ELSE IF error.kind = "Error"
  THEN [kind |-> "AppError", message |-> error.message, ref |-> ref]
  ELSE [kind |-> "AppError",
        message |-> IF error.kind = "string" THEN error.message
                    ELSE UnknownErrorMessage,
        ref |-> ref]

\* a function wrapped in 1 to MaxWrappers asyncErrorHandler has settled
ErrorInit ==
  /\ JobsIdle
  /\ ChunkIdle
  /\ TopicIdle
  /\ VttIdle
  /\ MinutesIdle
  /\ innerOutcome \in Settlements
  /\ settled = innerOutcome
  /\ wrapperCount \in 1..MaxWrappers
  /\ wrapped = 0
  /\ fullText = <<>>
  /\ sampleOptions = [maxTextLength |-> 0, sampleMethod |-> "none"]
  /\ sampleIndex = 0
  /\ sample = <<>>
  /\ samplePc = "idle"

\* the next wrapper outwards: try { return await fn(...args) }
\* catch (error) { throw handleError(error) }
WrapperSettles ==
  /\ wrapped < wrapperCount
  /\ settled' = IF settled.ok THEN settled
                ELSE [settled EXCEPT !.error = handleError(@, wrapped + 1)]
  /\ wrapped' = wrapped + 1
  /\ UNCHANGED <<innerOutcome, wrapperCount, nonErrorVars>>

ErrorSpec == ErrorInit /\ [][WrapperSettles]_vars

---------------------------------------------------------------------------
(* prepareTextSample as a state machine *)

\* the default of maxTextLength
defaultMaxTextLength == 8000
\* the cap of one piece of the 'all' sample
MaxPiece == 500
\* the separator appended to each piece of the 'all' sample, '\n...\n': five
\* characters, none of them a position of the text
PieceSeparator == <<0, 0, 0, 0, 0>>

\* options?.maxTextLength || 8000, options?.sampleMethod || 'start'
maxLength == IF sampleOptions.maxTextLength = 0 THEN defaultMaxTextLength
             ELSE sampleOptions.maxTextLength
sampleMethod == IF sampleOptions.sampleMethod = "none" THEN "start"
                ELSE sampleOptions.sampleMethod

\* case 'all': Math.ceil(fullText.length / maxLength) and
\* Math.floor(fullText.length / totalChunks)
totalChunks == (Len(fullText) + maxLength - 1) \div maxLength
sampleChunkSize == Len(fullText) \div totalChunks

\* prepareTextSample(fullText, options) is entered; the text is the sequence
\* of its own positions
SampleInit ==
  /\ JobsIdle
  /\ ChunkIdle
  /\ TopicIdle
  /\ VttIdle
  /\ MinutesIdle
  /\ innerOutcome = [ok |-> TRUE, value |-> NoValue, error |-> NoError]
  /\ settled = innerOutcome
  /\ wrapperCount = 0
  /\ wrapped = 0
  /\ \E n \in 0..MaxSampleText : fullText = [i \in 1..n |-> i]
  /\ sampleOptions \in
       [maxTextLength : 0..MaxSampleOpt,
        sampleMethod : {"none", "start", "middle", "end", "random", "all"}]
  /\ sampleIndex = 0
  /\ sample = <<>>
  /\ samplePc = "entered"

\* the text is short enough, or the case of the switch that returns at once
SampleReturn ==
  /\ samplePc = "entered"
  /\ \/ /\ Len(fullText) <= maxLength
        /\ sample' = fullText
     \/ /\ Len(fullText) > maxLength
        /\ sampleMethod = "start"
        /\ sample' = Substring(fullText, 0, maxLength)
     \/ /\ Len(fullText) > maxLength
        /\ sampleMethod = "end"
        /\ sample' = Substring(fullText, Len(fullText) - maxLength,
                               Len(fullText))
     \/ /\ Len(fullText) > maxLength
        /\ sampleMethod = "middle"
        /\ LET startAt == (Len(fullText) - maxLength) \div 2
           IN sample' = Substring(fullText, startAt, startAt + maxLength)
     \/ /\ Len(fullText) > maxLength
        /\ sampleMethod = "random"
        /\ \E randomStart \in 0..(Len(fullText) - maxLength - 1) :
             sample' = Substring(fullText, randomStart,
                                 randomStart + maxLength)
  /\ samplePc' = "returned"
  /\ UNCHANGED <<fullText, sampleOptions, sampleIndex, nonSampleVars>>

\* case 'all': one pass of the for loop
SampleAllPiece ==
  /\ samplePc = "entered"
  /\ Len(fullText) > maxLength
  /\ sampleMethod = "all"
  /\ sampleIndex < totalChunks
  /\ LET chunkStart == sampleIndex * sampleChunkSize
         \* Math.min(chunkSize / 4, 500); substring truncates its end
         sampleSize == Min(sampleChunkSize \div 4, MaxPiece)
     IN sample' = sample \o
          Substring(fullText, chunkStart, chunkStart + sampleSize) \o
          PieceSeparator
  /\ sampleIndex' = sampleIndex + 1
  /\ UNCHANGED <<fullText, sampleOptions, samplePc, nonSampleVars>>

\* case 'all': the loop ends, return result
SampleAllReturn ==
  /\ samplePc = "entered"
  /\ Len(fullText) > maxLength
  /\ sampleMethod = "all"
  /\ sampleIndex >= totalChunks
  /\ samplePc' = "returned"
  /\ UNCHANGED <<fullText, sampleOptions, sampleIndex, sample, nonSampleVars>>

SampleNext ==
  \/ SampleReturn
  \/ SampleAllPiece
  \/ SampleAllReturn

SampleSpec == SampleInit /\ [][SampleNext]_vars

---------------------------------------------------------------------------
(* Properties of the job lifecycle *)

\* the persisted status of job j
StatusOf(j) == IF store[j] = NoJob THEN "nojob" ELSE store[j].status

\* invocation p completes the saveJob of its updateJob in this step
Writes(p, j) ==
  /\ procs[p].pc = "upd_write"
  /\ procs[p].job = j
  /\ procs'[p].pc # "upd_write"

\* C1, as claimed: COMPLETED, FAILED and SKIPPED are terminal - once a job's
\* persisted status is one of them, no step of any operation changes it back
\* to PENDING or PROCESSING.
C1_TerminalIsFinal ==
  [][\A j \in JobIds :
       StatusOf(j) \in TerminalStatus => StatusOf(j)' \notin {PENDING, PROCESSING}]_vars

\* C1, as amended: the flows do take a terminal job back to PROCESSING, but
\* none of them ever writes PENDING - a job whose status is terminal returns to
\* PENDING only through a write of the PATCH /:jobId route.
C1_OnlyPatchReturnsToPending ==
  [][\A j \in JobIds :
       (StatusOf(j) \in TerminalStatus /\ StatusOf(j)' = PENDING)
         => \E p \in Procs : procs[p].op = "patch" /\ Writes(p, j)]_vars

\* C1 witness: a job that has completed once (completedAt is stamped) is
\* PENDING again.
C1_Witness ==
  /\ StatusOf(NewJobId) = PENDING
  /\ store[NewJobId].completedAt # NoTime

\* C2, as claimed: once processingStartedAt has been set, no later update
\* changes its value.
C2_ProcessingStartedAtStampedOnce ==
  [][\A j \in JobIds :
       (store[j] # NoJob /\ store[j].processingStartedAt # NoTime)
         => store'[j].processingStartedAt = store[j].processingStartedAt]_vars

\* C3, as claimed: once completedAt has been set, no later update overwrites
\* it.
C3_CompletedAtStampedOnce ==
  [][\A j \in JobIds :
       (store[j] # NoJob /\ store[j].completedAt # NoTime)
         => store'[j].completedAt = store[j].completedAt]_vars

\* C4: an update with status PROCESSING applied to a job that is PROCESSING
\* leaves processingStartedAt as it is, and an update with a terminal status
\* applied to a job whose status is terminal sets the requested status and
\* leaves completedAt as it is.
C4_ImmediateReentryKeepsStamp ==
  [][\A p \in Procs, j \in JobIds :
       Writes(p, j) =>
         /\ (procs[p].req.status = PROCESSING /\ StatusOf(j) = PROCESSING)
              => store'[j].processingStartedAt = store[j].processingStartedAt
         /\ (procs[p].req.status \in TerminalStatus
               /\ StatusOf(j) \in TerminalStatus)
              => /\ store'[j].status = procs[p].req.status
                 /\ store'[j].completedAt = store[j].completedAt]_vars

\* C4 witness: the updater has run for a FAILED request on a COMPLETED job
\* that carries its completedAt, at a later time than that stamp.
C4_Witness ==
  \E p \in Procs :
    /\ procs[p].pc = "upd_write"
    /\ procs[p].req.status = FAILED
    /\ procs[p].cur.status = COMPLETED
    /\ procs[p].cur.completedAt # NoTime
    /\ procs[p].cur.completedAt < clock
    /\ store[procs[p].job] = procs[p].cur

\* C5: the update is versionless - saveJob stores the record the updater
\* computed from the invocation's own read, whatever the store holds by then,
\* and the call goes on without an error.
C5_VersionlessWrite ==
  [][\A p \in Procs, j \in JobIds :
       Writes(p, j) =>
         /\ store'[j] = procs[p].upd
         /\ procs'[p].pc = procs[p].after]_vars

\* C5 witness, the lost update: an invocation has written FAILED with its
\* error message and returned, no invocation has raised, and the record holds
\* no error - a later write from an older read has replaced the record.
C5_LostUpdate ==
  \E p \in Procs :
    /\ procs[p].pc = "ret_fail"
    /\ store[procs[p].job] # NoJob
    /\ store[procs[p].job].error = Absent
    /\ \A q \in Procs : procs[q].pc # "raised"

\* the text a summarize invocation at "sm_text" is about to hand to
\* generateMinutes (<<>> when there is none)
ResolvedText(pr) ==
  IF pr.request.fullText # <<>> THEN pr.request.fullText
  ELSE IF pr.request.entries # NoEntries THEN pr.request.entries
  ELSE IF transcripts[pr.job] = NoTranscript THEN <<>>
  ELSE transcripts[pr.job].rawText

\* C6, as claimed: processTranscript and summarizeJobTranscript are the error
\* boundary - no invocation of them ends with an exception, and one that ends
\* in failure leaves the job persisted as FAILED with the error recorded.
C6_FlowsAreErrorBoundary ==
  \A p \in Procs :
    procs[p].op \in {"processTranscript", "summarize"} =>
      /\ procs[p].pc # "raised"
      /\ procs[p].pc = "ret_fail" =>
            /\ StatusOf(procs[p].job) = FAILED
            /\ store[procs[p].job].error # Absent

\* C7, as claimed: a summarizeJobTranscript invocation on an existing job with
\* a non-empty text, whose awaited calls all return or fail, eventually
\* returns with the job COMPLETED or FAILED.
C7_SummarizeRunsToEnd ==
  \A p \in Procs :
    (/\ procs[p].op = "summarize"
     /\ procs[p].pc = "sm_text"
     /\ store[procs[p].job] # NoJob
     /\ ResolvedText(procs[p]) # <<>>)
      ~> (/\ procs[p].pc \in {"ret_ok", "ret_fail"}
          /\ StatusOf(procs[p].job) \in {COMPLETED, FAILED})

---------------------------------------------------------------------------
(* Properties of splitTextIntoChunks *)

\* C8, as claimed: with 0 < chunkOverlap < chunkSize, once the chunk that
\* reaches the end of the text has been emitted no further chunk is produced.
C8_NoChunkAfterTheLast ==
  [][(/\ splitPc = "loop"
      /\ 0 < chunkOverlap /\ chunkOverlap < chunkSize
      /\ Len(chunks) > 0
      /\ endPos = Len(text))
       => chunks' = chunks]_vars

\* C9, as claimed: the chunking loop is never entered with
\* chunkOverlap >= chunkSize - whenever a chunk has been emitted the overlap is
\* smaller than the chunk size.
C9_LoopOnlyWithOverlapBelowSize ==
  Len(chunks) > 0 => chunkOverlap < chunkSize

\* C10, as claimed: for the 20,000-character text without terminators, with
\* chunkSize 8000 and chunkOverlap 500, the planner yields exactly 3 chunks
\* with ids 0, 1, 2 (one topic per chunk then gives the 3 topics of the
\* timeline).
C10_ScenarioYieldsThreeChunks ==
  text = ScenarioText =>
    /\ Len(chunks) <= 3
    /\ \A i \in 1..Len(chunks) : chunks[i].id = i - 1
    /\ splitPc = "done" => Len(chunks) = 3

\* C11, as claimed: with chunkOverlap < chunkSize the chunks cover the text
\* without gaps - every chunk is the substring that starts where the loop
\* planned it (offset 0, then chunkOverlap before the end of the chunk before
\* it) and, until the end of the text is reached, ends after the end of the
\* chunk before it, so that no character is missing from every chunk.
C11_ChunksAdvanceWithoutGaps ==
  [][(splitPc = "loop" /\ chunkOverlap < chunkSize /\ chunks' # chunks) =>
       /\ startPos >= 0
       /\ startPos <= endPos'
       /\ chunks'[Len(chunks')].text = SubSeq(text, startPos + 1, endPos')
       /\ Len(chunks) > 0 => startPos = endPos - chunkOverlap
       /\ endPos < Len(text) => endPos' > endPos]_vars

---------------------------------------------------------------------------
(* Properties of analyzeAllTopics and generateMinutes *)

\* the calls that have been dispatched / are in flight
Dispatched == {k \in 1..Len(topicChunks) : topicCalls[k].st # "none"}
CallsInFlight == {k \in 1..Len(topicChunks) : topicCalls[k].st = "inflight"}
\* the batch of three the k-th chunk belongs to
BatchOf(k) == (k - 1) \div 3

\* C12: at every moment at most 3 analysis calls are in flight, the chunks
\* are dispatched in consecutive batches of 3 in input order, and no call of
\* a batch is dispatched before every call of the batches before it has
\* resolved.
C12_BoundedConcurrency ==
  /\ Cardinality(CallsInFlight) <= 3
  /\ \A k \in Dispatched, l \in 1..Len(topicChunks) :
       /\ BatchOf(l) <= BatchOf(k) => l \in Dispatched
       /\ BatchOf(l) < BatchOf(k) => topicCalls[l].st = "ok"

\* C12 witness: the two calls of the second batch of five chunks are in
\* flight.
C12_Witness ==
  /\ Len(topicChunks) = 5
  /\ CallsInFlight = {4, 5}

\* C13: whatever the order in which the calls complete, the i-th topic is the
\* result for the i-th chunk, and the returned list has exactly one topic per
\* chunk.
C13_OrderPreserved ==
  /\ \A j \in 1..Len(topics) : topics[j].about = j
  /\ topicPc = "returned" => Len(topics) = Len(topicChunks)

\* C13 witness: analyzeAllTopics has returned although the call of the second
\* chunk settled first.
C13_Witness ==
  /\ topicPc = "returned"
  /\ Len(resolved) >= 2
  /\ resolved[1] = 2

\* C14: when the call of any chunk fails, analyzeAllTopics fails with that
\* error - it never returns a list, and no chunk of a later batch is
\* dispatched; a returned list rests on calls that all succeeded.
C14_AllOrNothing ==
  /\ topicPc = "returned" => \A k \in 1..Len(topicChunks) : topicCalls[k].st = "ok"
  /\ (\E k \in 1..Len(topicChunks) : topicCalls[k].st = "failed") =>
       /\ topicPc \in {"await", "raised"}
       /\ analyzeError # 0
       /\ topicCalls[analyzeError].st = "failed"
       /\ \A l \in Dispatched : BatchOf(l) <= BatchOf(analyzeError)

\* C14 witness: the first batch was collected, a call of the second batch
\* failed, and analyzeAllTopics has raised.
C14_Witness ==
  /\ topicPc = "raised"
  /\ Len(topics) = 3
  /\ analyzeError \in {4, 5}

\* C15: every topic carries the id of the chunk it was produced from,
\* whatever id the external response holds.
C15_TopicIdIsChunkId ==
  /\ \A j \in 1..Len(topics) : topics[j].id = topicChunks[j].id
  /\ \A k \in 1..Len(topicChunks) :
       topicCalls[k].st = "ok" =>
         analyzeTopicFromChunk(topicChunks[k], topicCalls[k].json).id
           = topicChunks[k].id

\* C15 witness: a collected topic whose response carried another id than its
\* chunk's.
C15_Witness ==
  \E j \in 1..Len(topics) :
    /\ topicCalls[j].json.id # NoId
    /\ topicCalls[j].json.id # topicChunks[j].id

\* C16, as claimed: within generateMinutes the topic analysis does not wait
\* for the global summary - when the global-summary call has failed, the
\* analysis calls of the chunks have been dispatched all the same.
C16_TopicsDispatchedDespiteSummary ==
  (/\ entry = "generateMinutes"
   /\ Len(topicChunks) > 0
   /\ summaryCall = "failed")
    => Dispatched # {}

---------------------------------------------------------------------------
(* Properties of the classification step *)

\* C17: classifyText never propagates a failure of the external call - when
\* the call raises, classifyText returns category other with a non-empty
\* reason, and classifyMeetingForJob goes on to save that result.
C17_ClassifyTextSoftFailure ==
  [][\A p \in Procs :
       (procs[p].pc = "cl_ai" /\ procs'[p].answer = "raised") =>
         /\ procs'[p].pc = "upd_read"
         /\ procs'[p].ret.category = OTHER_CATEGORY
         /\ procs'[p].ret.reason \notin {Absent, ""}
         /\ procs'[p].req.category = OTHER_CATEGORY
         /\ procs'[p].req.reason = procs'[p].ret.reason]_vars

\* C17 witness: the external call of a classification has raised and the
\* invocation is on its way to save the result.
C17_Witness ==
  \E p \in Procs :
    /\ procs[p].op = "classify"
    /\ procs[p].answer = "raised"
    /\ procs[p].pc = "upd_write"

\* C18, as claimed: when the external classification call fails, the job is
\* recorded with category other and a reason, is not FAILED, and the pipeline
\* may continue with the job - it is not taken out of processing and
\* shouldProcess is true.
C18_ClassificationFailureContinues ==
  [][\A p \in Procs, j \in JobIds :
       (Writes(p, j) /\ procs[p].op = "classify" /\ procs[p].answer = "raised")
         => /\ store'[j].category = OTHER_CATEGORY
            /\ store'[j].reason \notin {Absent, ""}
            /\ store'[j].status # FAILED
            /\ store'[j].status # SKIPPED
            /\ procs'[p].ret.shouldProcess]_vars

\* C19, as claimed: a job the classification step marks SKIPPED is taken
\* there from PENDING or PROCESSING, and a SKIPPED job does not become
\* COMPLETED.
C19_SkippedExcludesCompleted ==
  [][\A j \in JobIds :
       /\ (/\ \E p \in Procs : Writes(p, j) /\ procs[p].op = "classify"
           /\ StatusOf(j)' = SKIPPED)
            => /\ StatusOf(j) \in {PENDING, PROCESSING}
               /\ store[j].completedAt = NoTime
       /\ StatusOf(j) = SKIPPED => StatusOf(j)' # COMPLETED]_vars

\* C20: classifyMeetingForJob on a job whose category is already recorded
\* returns at once - no external call, no write to the job record - with the
\* stored category and shouldProcess computed from it.
C20_ClassificationIdempotent ==
  [][\A p \in Procs :
       (/\ procs[p].pc = "cl_get"
        /\ procs'[p] # procs[p]
        /\ store[procs[p].job] # NoJob
        /\ store[procs[p].job].category # Absent)
         => /\ procs'[p].pc = "ret_ok"
            /\ store' = store
            /\ procs'[p].ret.category = store[procs[p].job].category
            /\ procs'[p].ret.shouldProcess
                 = shouldProcessMeeting(store[procs[p].job].category)]_vars

\* C20 witness: a classification has returned the category another request
\* recorded before, and the record is as that request left it (no reason, no
\* change of status).
C20_Witness ==
  \E p \in Procs :
    /\ procs[p].op = "classify"
    /\ procs[p].pc = "ret_ok"
    /\ procs[p].ret.reason = ExistingReason
    /\ procs[p].ret.category = store[procs[p].job].category
    /\ store[procs[p].job].reason = Absent

---------------------------------------------------------------------------
(* Properties of the flow starters *)

\* C21: startTranscriptProcessing starts the transcript flow only for a job
\* it finds PENDING - for a missing job and for a job in any other status it
\* returns success=false, starts no flow, and leaves the record unchanged.
C21_TranscriptStartsOnlyFromPending ==
  [][\A p \in Procs :
       (procs[p].pc = "st_get" /\ procs'[p] # procs[p]) =>
         /\ store' = store
         /\ IF StatusOf(procs[p].job) = PENDING
            THEN procs'[p].op = "processTranscript"
            ELSE /\ procs'[p].op = "startTranscriptProcessing"
                 /\ procs'[p].pc = "ret_refused"]_vars

\* C21 witness: startTranscriptProcessing has refused a job that exists and
\* is COMPLETED.
C21_Witness ==
  \E p \in Procs :
    /\ procs[p].op = "startTranscriptProcessing"
    /\ procs[p].pc = "ret_refused"
    /\ StatusOf(procs[p].job) = COMPLETED

\* C22, as claimed: startSummarization starts no summarization flow for a job
\* whose status is PROCESSING or COMPLETED - it returns success=false.
C22_NoSummarizationWhileProcessing ==
  [][\A p \in Procs :
       (/\ procs[p].pc = "ss_get"
        /\ procs'[p] # procs[p]
        /\ StatusOf(procs[p].job) \in {PROCESSING, COMPLETED})
         => /\ procs'[p].op = "startSummarization"
            /\ procs'[p].pc = "ret_refused"]_vars

----------------------------------------------------------------------------
\* Properties of the job record

\* the fields of UpdateJobRequest a caller can name
RequestFields ==
  {"status", "category", "reason", "notionPageId", "notionPageUrl", "error"}

---------------------------------------------------------------------------
(* Properties of parseVttTranscript *)

\* the positions at which a maximal run of adjacent same-speaker entries
\* starts
RunStarts(es) ==
  {i \in 1..Len(es) : i = 1 \/ es[i].speaker # es[i - 1].speaker}

\* the first and the last position of the k-th run
RunFirst(es, k) ==
  CHOOSE i \in RunStarts(es) :
    Cardinality({h \in RunStarts(es) : h <= i}) = k
RunLast(es, k) ==
  IF k = Cardinality(RunStarts(es)) THEN Len(es) ELSE RunFirst(es, k + 1) - 1

\* out is es with every maximal run merged into one entry
MergedRuns(es, out) ==
  /\ Len(out) = Cardinality(RunStarts(es))
  /\ \A k \in 1..Len(out) :
       LET a == RunFirst(es, k)
           b == RunLast(es, k)
       IN /\ out[k].speaker = es[a].speaker
          /\ out[k].startTime = es[a].startTime
          /\ out[k].endTime = es[b].endTime
          /\ out[k].text = JoinTexts(TextsOf(SubSeq(es, a, b)), " ")

\* C24: with combineLines, the entries are replaced by their maximal runs of
\* adjacent same-speaker entries, each merged into one entry (text joined by
\* single spaces, start of the first, end of the last), so that no two
\* adjacent entries of the output share a speaker; the parsed entries
\* themselves are left as they were.
C24_CombineMergesRuns ==
  [][(vttPc = "combine" /\ vttOptions.combineLines) =>
       /\ MergedRuns(entries, finalEntries')
       /\ \A k \in 1..(Len(finalEntries') - 1) :
            finalEntries'[k].speaker # finalEntries'[k + 1].speaker
       /\ entries' = entries]_vars

\* a run of two entries of one speaker, with different end times, was merged
\* and an entry of another speaker follows it
C24_Witness ==
  /\ vttPc = "clean"
  /\ vttOptions.combineLines
  /\ Len(entries) = 3
  /\ Len(finalEntries) = 2
  /\ entries[1].endTime # entries[2].endTime
  /\ finalEntries[1].endTime = entries[2].endTime
  /\ finalEntries[1].text = <<"x", " ", "x">>

\* C25: whatever the input and the options, the returned rawText is the
\* newline-join of the returned entries' texts, and metadata.speakerCount is
\* the number of distinct metadata.speakers.
C25_RawTextAndSpeakerCount ==
  \A k \in 1..Len(transcript) :
    /\ transcript[k].rawText = JoinTexts(TextsOf(transcript[k].entries), "\n")
    /\ transcript[k].metadata.speakerCount =
         Cardinality({transcript[k].metadata.speakers[i] :
                        i \in 1..Len(transcript[k].metadata.speakers)})

\* a transcript of two entries and two speakers was returned, a filler word
\* removed from one of its texts
C25_Witness ==
  /\ vttPc = "returned"
  /\ vttOptions.removeFiller
  /\ Len(transcript[1].entries) = 2
  /\ transcript[1].entries # finalEntries
  /\ transcript[1].metadata.speakerCount = 2

\* C26, as claimed: every entry of a returned transcript has
\* startTime <= endTime, and the entries are in non-decreasing startTime
\* order.
C26_TimesOrdered ==
  \A k \in 1..Len(transcript) :
    LET es == transcript[k].entries
    IN /\ \A i \in 1..Len(es) : es[i].startTime <= es[i].endTime
       /\ \A i \in 1..(Len(es) - 1) : es[i].startTime <= es[i + 1].startTime

---------------------------------------------------------------------------
(* Properties of the timeline, the participants and the parsed summary *)

\* C27, as claimed: whatever the order of the input, of any two adjacent
\* topics of a returned timeline that both have a startTime the first starts
\* no later than the second, and has the smaller id when they start together;
\* next to a topic without a startTime the ids ascend.
C27_TimelineOrdered ==
  \A n \in 1..Len(timeline) :
    \A i \in 1..(Len(timeline[n]) - 1) :
      LET a == timeline[n][i]
          b == timeline[n][i + 1]
      IN IF a.startTime # NoStartTime /\ b.startTime # NoStartTime
         THEN /\ a.startTime <= b.startTime
              /\ a.startTime = b.startTime => a.id < b.id
         ELSE a.id < b.id

C29_ParticipantsAreTheUnion ==
  \A n \in 1..Len(minutes) :
    LET m == minutes[n]
        named == {m.participants[i] : i \in 1..Len(m.participants)}
    IN /\ Cardinality(named) = Len(m.participants)
       /\ named =
            (UNION {{minuteTopics[k].speakers[i] :
                       i \in 1..Len(minuteTopics[k].speakers)} :
                      k \in 1..Len(minuteTopics)}
               \cup {m.globalSummary.participants[i] :
                       i \in 1..Len(m.globalSummary.participants)})
            \ {"", UnknownMarker}
       /\ m.participantCount = Len(m.participants)

\* minutes whose participants come from two topics that share a speaker, from
\* a topic that only names the empty string and the unknown marker, and from
\* the global summary
C29_Witness ==
  /\ minutesPc = "returned"
  /\ Len(minutes) = 1
  /\ Len(minuteTopics) = 3
  /\ \E k \in 1..3 : minuteTopics[k].speakers = <<"", UnknownMarker>>
  /\ minutes[1].participants = <<"A", "B", "C">>

\* the summary has a line of this kind
HasLine(md, kind) == \E i \in 1..Len(md) : md[i].kind = kind

\* C30: parseGlobalSummary returns for every input (it has no position in
\* which it raised); a field whose label is absent is the unknown marker
\* (purpose, date) or empty (participants), a section whose heading is absent
\* is empty (summary, decisions, actionItems), and rawMarkdown is the input.
C30_ParseIsTotalWithDefaults ==
  /\ (minutesEntry = "parseGlobalSummary" /\ minutesPc # "parse") =>
       (minutesPc = "returned" /\ Len(globalSummary) = 1)
  /\ \A n \in 1..Len(globalSummary) :
       LET g == globalSummary[n]
       IN /\ g.rawMarkdown = summaryMarkdown
          /\ ~HasLine(summaryMarkdown, "purpose") => g.purpose = UnknownMarker
          /\ ~HasLine(summaryMarkdown, "date") => g.date = UnknownMarker
          /\ ~HasLine(summaryMarkdown, "participants") =>
               g.participants = <<>>
          /\ ~HasLine(summaryMarkdown, "summary") => g.summary = <<>>
          /\ ~HasLine(summaryMarkdown, "decisions") => g.decisions = <<>>
          /\ ~HasLine(summaryMarkdown, "actions") => g.actionItems = <<>>

\* a summary with a decisions section and no other label or heading was
\* parsed: its decision is found and every other field has its default
C30_Witness ==
  /\ minutesEntry = "parseGlobalSummary"
  /\ minutesPc = "returned"
  /\ Len(summaryMarkdown) = 3
  /\ globalSummary[1].decisions = <<"x">>
  /\ globalSummary[1].purpose = UnknownMarker
  /\ globalSummary[1].date = UnknownMarker
  /\ globalSummary[1].participants = <<>>
  /\ globalSummary[1].summary = <<>>
  /\ globalSummary[1].actionItems = <<>>

---------------------------------------------------------------------------
(* Properties of asyncErrorHandler and prepareTextSample *)

\* C32, as claimed: a wrapper resolves with the value its function resolved
\* with; when its function rejects it rejects with an AppError that carries
\* the message of what was thrown; what is already an AppError passes through
\* as the same object, so a second wrapper changes nothing.
C32_ErrorsNormalised ==
  [][wrapped' = wrapped + 1 =>
       /\ settled.ok => settled' = settled
       /\ ~settled.ok =>
            /\ ~settled'.ok
            /\ settled'.error.kind \in AppErrorKinds
            /\ settled.error.kind # "number" =>
                 settled'.error.message = settled.error.message
            /\ settled.error.kind \in AppErrorKinds =>
                 settled'.error = settled.error
       /\ wrapped >= 1 => settled' = settled]_vars

\* C32, amended: as above, the message being carried over from an Error, a
\* string or an AppError only; for anything else thrown the AppError has the
\* fixed unknown-error message.
C32_ErrorsNormalisedKnown ==
  [][wrapped' = wrapped + 1 =>
       /\ settled.ok => settled' = settled
       /\ ~settled.ok =>
            /\ ~settled'.ok
            /\ settled'.error.kind \in AppErrorKinds
            /\ settled'.error.message =
                 IF settled.error.kind \in
                      AppErrorKinds \cup {"Error", "string"}
                 THEN settled.error.message ELSE UnknownErrorMessage
            /\ settled.error.kind \in AppErrorKinds =>
                 settled'.error = settled.error
       /\ wrapped >= 1 => settled' = settled]_vars

\* a standard Error went through two wrappers: the AppError the first one
\* made, with the Error's message, came out of the second
C32_Witness ==
  /\ wrapped = 2
  /\ innerOutcome.error.kind = "Error"
  /\ settled.error =
       [kind |-> "AppError", message |-> innerOutcome.error.message,
        ref |-> 1]

\* C40, as claimed: the sample prepareTextSample returns is never longer
\* than maxTextLength, whatever the text, the limit and the method, and a
\* text no longer than the limit is returned as it is.
C40_SampleWithinLimit ==
  samplePc = "returned" =>
    /\ Len(sample) <= maxLength
    /\ Len(fullText) <= maxLength => sample = fullText

---------------------------------------------------------------------------
(* Further properties of the job flows *)

\* C33: the save of a classification writes the category and the reason
\* together with the status, the status is PROCESSING exactly for
\* internalMeeting and SKIPPED for every other category, and the
\* shouldProcess returned is true exactly when PROCESSING was written.
C33_CategoryDecidesStatus ==
  [][\A p \in Procs :
       (procs[p].op = "classify" /\ Writes(p, procs[p].job)) =>
         LET saved == store'[procs[p].job]
         IN /\ saved.category = procs[p].req.category
            /\ saved.category \in MeetingCategory
            /\ saved.reason = procs[p].req.reason
            /\ saved.status = IF saved.category = INTERNAL_MEETING
                              THEN PROCESSING ELSE SKIPPED
            /\ procs'[p].pc = "ret_ok"
            /\ procs'[p].ret.category = saved.category
            /\ procs'[p].ret.shouldProcess = (saved.status = PROCESSING)]_vars

\* a classification has saved smallTalk with SKIPPED and answered that the
\* meeting is not to be processed
C33_Witness ==
  \E p \in Procs :
    /\ procs[p].op = "classify"
    /\ procs[p].pc = "ret_ok"
    /\ procs[p].ret.reason = "because"
    /\ procs[p].ret.category = SMALL_TALK
    /\ ~procs[p].ret.shouldProcess
    /\ store[procs[p].job].category = SMALL_TALK
    /\ store[procs[p].job].status = SKIPPED

---------------------------------------------------------------------------
(* Further properties of splitTextIntoChunks *)

\* 0-based positions of the '.' and newline characters of the text that lie
\* in the window around the nominal end e
TerminatorsAround(e) ==
  {p \in 0..(Len(text) - 1) :
     /\ text[p + 1] \in {".", "\n"}
     /\ e - LookBack <= p
     /\ p <= e + LookAhead}

Distance(a, b) == IF a < b THEN b - a ELSE a - b

\* C34: when the nominal end e = startPos + chunkSize falls inside the text,
\* the pass of the loop places the chunk's end just after a terminator of the
\* window e-100..e+200 that is nearest to e, and at e when the window holds
\* no terminator.
C34_SnapsToNearestTerminator ==
  [][(SplitIterate /\ startPos + chunkSize <= Len(text)) =>
       LET e == startPos + chunkSize
           near == TerminatorsAround(e)
       IN IF near = {}
          THEN endPos' = e
          ELSE \E p \in near :
                 /\ \A q \in near : Distance(p, e) <= Distance(q, e)
                 /\ endPos' = p + 1]_vars

\* C35: with one invocation at a time, every job record whose status is
\* PROCESSING has processingStartedAt, every record whose status is COMPLETED,
\* FAILED or SKIPPED has completedAt, and the record createJob stores is
\* PENDING with neither timestamp.
C35_TimestampsTrackStatus ==
  /\ [](\A j \in JobIds :
          store[j] # NoJob =>
            /\ store[j].status = PROCESSING =>
                 store[j].processingStartedAt # NoTime
            /\ store[j].status \in TerminalStatus =>
                 store[j].completedAt # NoTime)
  /\ [][\A j \in JobIds :
          (store[j] = NoJob /\ store'[j] # NoJob) =>
            /\ store'[j].status = PENDING
            /\ store'[j].processingStartedAt = NoTime
            /\ store'[j].completedAt = NoTime]_vars

\* a job that reached a final status is PROCESSING again, with a
\* processingStartedAt later than its completedAt
C35_Witness ==
  \E j \in JobIds :
    /\ store[j] # NoJob
    /\ store[j].status = PROCESSING
    /\ store[j].completedAt # NoTime
    /\ store[j].processingStartedAt > store[j].completedAt

\* C36: updateJob on a job id without a record throws and saves nothing: the
\* step that reads no record leaves the store as it is and never goes on to
\* the save, a direct call (PATCH) ends rejected, the id no job was created
\* under never gets a record, and an updateJob that returned to its caller
\* has a record to return.
C36_MissingJobRaises ==
  /\ [][\A p \in Procs :
          (/\ procs[p].pc = "upd_read"
           /\ store[procs[p].job] = NoJob
           /\ procs'[p] # procs[p]) =>
            /\ store' = store
            /\ procs'[p].pc # "upd_write"
            /\ procs[p].op = "patch" => procs'[p].pc = "raised"]_vars
  /\ [](store[UnknownJobId] = NoJob)
  /\ [](\A p \in Procs :
          (procs[p].op = "patch" /\ procs[p].pc = "ret_ok") =>
            store[procs[p].job] # NoJob)

\* a PATCH for the id no job was created under has been rejected, while a job
\* exists under the other id
C36_Witness ==
  \E p \in Procs :
    /\ procs[p].op = "patch"
    /\ procs[p].job = UnknownJobId
    /\ procs[p].pc = "raised"
    /\ store[UnknownJobId] = NoJob
    /\ store[NewJobId] # NoJob

\* C37: processTranscript reaches the Zoom calls only through the read that
\* follows its own save of PROCESSING, saves COMPLETED only when the
\* transcript of the job is in the store, and has that transcript in the
\* store whenever it has returned success.
C37_WritesAreOrdered ==
  /\ [][\A p \in Procs :
          LET j == procs[p].job
          IN /\ (procs'[p].pc = "pt_zoom" /\ procs[p].pc # "pt_zoom") =>
                  procs[p].pc = "pt_getraw"
             /\ (procs'[p].pc = "pt_getraw" /\ procs[p].pc # "pt_getraw") =>
                  /\ procs[p].op = "processTranscript"
                  /\ Writes(p, j)
                  /\ store'[j].status = PROCESSING
             /\ (/\ procs[p].op = "processTranscript"
                 /\ Writes(p, j)
                 /\ procs[p].upd.status = COMPLETED) =>
                  /\ transcripts[j] # NoTranscript
                  /\ store'[j].status = COMPLETED]_vars
  /\ [](\A p \in Procs :
          (procs[p].op = "processTranscript" /\ procs[p].pc = "ret_ok") =>
            transcripts[procs[p].job] # NoTranscript)

\* a flow has returned success for a job that is COMPLETED and has its
\* transcript
C37_Witness ==
  \E p \in Procs :
    /\ procs[p].op = "processTranscript"
    /\ procs[p].pc = "ret_ok"
    /\ store[procs[p].job].status = COMPLETED
    /\ transcripts[procs[p].job] # NoTranscript

\* overlapping invocations, and an invocation in flight keeps running: every
\* awaited call returns or fails, and the caller takes the outcome
FairSpec == Spec /\ WF_vars(Step)

\* two startTranscriptProcessing requests for the same PENDING job have
\* arrived and neither has read the job yet
TwoStartsArrived ==
  /\ \A p \in Procs :
       /\ procs[p].op = "startTranscriptProcessing"
       /\ procs[p].pc = "st_get"
       /\ procs[p].job = NewJobId
  /\ StatusOf(NewJobId) = PENDING

\* every invocation in flight is a transcript flow of the same job, and no
\* invocation was started besides the two
TwoFlowsOfOneJob ==
  /\ calls = 2
  /\ \A p \in Procs :
       /\ procs[p].op = "processTranscript"
       /\ procs[p].job = NewJobId
       /\ procs[p].pc \notin EndPcs

\* C38: when two startTranscriptProcessing requests for the same PENDING job
\* have arrived before either flow wrote PROCESSING, the two never both run
\* processTranscript for that job.
C38_OneTranscriptFlowPerJob ==
  [](TwoStartsArrived => [](~TwoFlowsOfOneJob))

\* the operations that end by saving COMPLETED on success
CompletingFlows == {"processTranscript", "summarize"}

\* a flow's save of COMPLETED leaves no error in the record
FlowCompletesWithoutError ==
  \A p \in Procs :
    (/\ procs[p].op \in CompletingFlows
     /\ Writes(p, procs[p].job)
     /\ procs[p].upd.status = COMPLETED) =>
      store'[procs[p].job].error = Absent

\* C39: no job record has status COMPLETED together with an error, and in
\* particular the save of COMPLETED by a flow that succeeded on a job that
\* failed earlier leaves no error in the record.
C39_CompletedHasNoError ==
  /\ [](\A j \in JobIds :
          (store[j] # NoJob /\ store[j].status = COMPLETED) =>
            store[j].error = Absent)
  /\ [][FlowCompletesWithoutError]_vars

====
